---- MODULE Spec2Model ----
(***************************************************************************)
(* The availability / scoring pipeline of Clockwork (src/scheduler.py and  *)
(* its copy src/server/scheduler.py): clip, merge, free gaps, candidate    *)
(* slots, scoring and top-k selection, and in front of it the conversion   *)
(* of Google Calendar events by create_meeting_with_dates and of request   *)
(* payloads by create_meeting_from_payload; then the notification handlers *)
(* of src/server/app.py that trigger the calendar sync.  Intervals are     *)
(* pairs <<start, end>> of integer minutes, half open.                     *)
(***************************************************************************)
EXTENDS Integers, Sequences, FiniteSets, TLC

VARIABLES
    pc,              \* "start" before the call under study, "done" after it
    intervals,       \* argument of merge_intervals
    people,          \* list of Person: [timezone, events]
    window_start,    \* w_start / window_start, minutes
    window_end,      \* w_end / window_end, minutes
    duration,        \* meeting duration, minutes
    location_type,   \* "virtual" | "in-person" | "hybrid"
    settings,        \* OrgSettings
    top_k,           \* number of slots asked for
    window_start_dt, \* <<>> for None, <<m>> for a datetime m minutes after a Monday 00:00
    busy_intervals,  \* merged busy list
    free_intervals,  \* free gaps
    candidates,      \* candidate slots
    scored_slots,    \* scored candidates (sorted once find_optimal_slots has sorted them)
    result,          \* what find_optimal_slots returns
    raised,          \* "" while no exception has left the call, else the exception's name
    people_events,   \* argument of build_people_from_google_events
    start_dt,        \* create_meeting_with_dates: window start, seconds after a Monday 00:00
    end_dt,          \* create_meeting_with_dates: window end, same unit
    free_index,      \* generate_candidate_slots: index of the free gap being walked
    loop_current,    \* generate_candidate_slots: `current`, the while loop's variable
    server_result,   \* what find_optimal_slots of src/server/scheduler.py returns
    server_raised,   \* the exception that left it, "" for none
    people_payload,  \* create_meeting_from_payload: the people_payload argument
    payload_window,  \* create_meeting_from_payload: <<window_start, window_end>>, datetimes
    reference_start, \* create_meeting_from_payload: <<>> or <<the reference datetime>>
    payload_return,  \* create_meeting_from_payload: <<>> for None, else <<start_dt, end_dt>>
    notifications,   \* table notifications of one confirmed meeting, by user
    invites,         \* table confirmed_meeting_invites of that meeting: status by user
    calendar_synced, \* column confirmed_meetings.calendar_synced
    calendar_events, \* events inserted into the organizer's Google Calendar
    requests,        \* the HTTP request each user has in progress
    sync_log         \* the invite statuses at each call of _sync_meeting_to_calendars

vars == <<pc, intervals, people, window_start, window_end, duration, location_type,
          settings, top_k, window_start_dt, busy_intervals, free_intervals,
          candidates, scored_slots, result, raised, people_events, start_dt, end_dt,
          free_index, loop_current, server_result, server_raised, people_payload,
          payload_window, reference_start, payload_return, notifications, invites,
          calendar_synced, calendar_events, requests, sync_log>>

\* the inputs of create_meeting_with_dates and the locals of the candidate loop
createVars == <<people_events, start_dt, end_dt>>
loopVars == <<free_index, loop_current>>
twinVars == <<server_result, server_raised>>
payloadVars == <<people_payload, payload_window, reference_start, payload_return>>
notifyVars == <<notifications, invites, calendar_synced, calendar_events, requests, sync_log>>

(***************************************************************************)
(* Bounds of the model.                                                    *)
(***************************************************************************)
MergeMaxTick == 4    \* merge_intervals: interval end points are 30 * (0..MergeMaxTick)
MergeMaxLen == 3     \* merge_intervals: length of the argument list
FreeMaxTick == 5     \* busy_to_free: end points are 15 * (0..FreeMaxTick)
FreeMaxLen == 3      \* busy_to_free: length of the busy list
CandMaxTick == 6     \* generate_candidate_slots: end points are 15 * (-1..CandMaxTick)
CandMaxLen == 3      \* generate_candidate_slots: number of free gaps
PipeMaxEvents == 2   \* find_optimal_slots: number of events of all the people together
CreateMaxEvents == 2 \* create_meeting_with_dates: number of events of the first person
ClipMaxTick == 6     \* clip_interval: end points are 15 * (-1..ClipMaxTick)
LoopMaxTick == 4     \* candidate loop: end points of the free gaps are 15 * (0..LoopMaxTick)
ScoreMaxDay == 6     \* score_slot: the slot starts on day 0..ScoreMaxDay after the origin
ScoreMaxZones == 3   \* score_slot: number of people, each in a timezone of their own or not
LongMaxDay == 1      \* score_slot on long slots: the slot starts on day 0..LongMaxDay
PayloadMaxEvents == 1 \* create_meeting_from_payload: number of events of the first entry
NumInvitees == 2     \* notification handlers: invitees of the confirmed meeting
MaxRequests == 2     \* notification handlers: requests each invitee sends

(***************************************************************************)
(* Python built-ins.                                                       *)
(***************************************************************************)
None == <<>>

Max(a, b) == IF a >= b THEN a ELSE b

Min(a, b) == IF a <= b THEN a ELSE b

Range(s) == {s[i] : i \in 1..Len(s)}

\* key=lambda x: (x[0], x[1]) : tuple comparison
KeyLE(a, b) == a[1] < b[1] \/ (a[1] = b[1] /\ a[2] <= b[2])

\* the place of x in an already sorted list: after every element whose key is <= x's
RECURSIVE InsertByKey(_, _)
InsertByKey(s, x) ==
    IF s = <<>> THEN <<x>>
    ELSE IF KeyLE(s[Len(s)], x) THEN Append(s, x)
    ELSE Append(InsertByKey(SubSeq(s, 1, Len(s) - 1), x), s[Len(s)])

\* sorted(intervals, key=lambda x: (x[0], x[1])) : stable, ascending
RECURSIVE SortedIntervals(_)
SortedIntervals(s) ==
    IF s = <<>> THEN <<>>
    ELSE InsertByKey(SortedIntervals(SubSeq(s, 1, Len(s) - 1)), s[Len(s)])

\* a // b for b # 0: the quotient rounded down, also for a negative divisor
FloorDiv(a, b) == IF b > 0 THEN a \div b ELSE (0 - a) \div (0 - b)

(***************************************************************************)
(* clip_interval                                                           *)
(***************************************************************************)
clip_interval(iv, w_start, w_end) ==
    LET s2 == Max(iv[1], w_start)
        e2 == Min(iv[2], w_end)
    IN  IF e2 <= s2 THEN None ELSE <<s2, e2>>

(***************************************************************************)
(* merge_intervals                                                         *)
(***************************************************************************)
\* intervals = sorted(intervals, key=...): the caller's list after the call. sorted()
\* builds a new list; intervals.sort() would have sorted the caller's list
ArgumentAfterSort(ivs) == SortedIntervals(ivs)

ArgumentAfterSorted(ivs) == ivs

\* one turn of the for loop: s, e against merged[-1]
MergeStepNoTouch(merged, iv) ==
    LET last == merged[Len(merged)]
    IN  IF iv[1] < last[2]
        THEN [merged EXCEPT ![Len(merged)] = <<last[1], Max(last[2], iv[2])>>]
        ELSE Append(merged, iv)

MergeStepNoMax(merged, iv) ==
    LET last == merged[Len(merged)]
    IN  IF iv[1] <= last[2]
        THEN [merged EXCEPT ![Len(merged)] = <<last[1], iv[2]>>]
        ELSE Append(merged, iv)

MergeStep(merged, iv) ==
    LET last == merged[Len(merged)]
    IN  IF iv[1] <= last[2]
        THEN [merged EXCEPT ![Len(merged)] = <<last[1], Max(last[2], iv[2])>>]
        ELSE Append(merged, iv)

RECURSIVE MergeLoop(_, _, _)
MergeLoop(sorted, i, merged) ==
    IF i > Len(sorted) THEN merged
    ELSE MergeLoop(sorted, i + 1, MergeStep(merged, sorted[i]))

merge_intervals(ivs) ==
    IF ivs = <<>> THEN <<>>
    ELSE LET sorted == SortedIntervals(ivs)
         IN  MergeLoop(sorted, 2, <<sorted[1]>>)

(***************************************************************************)
(* busy_to_free                                                            *)
(***************************************************************************)
\* the for loop over busy, from index i on, with its break; returns [cur, free]
RECURSIVE BusyToFreeLoop(_, _, _, _, _)
BusyToFreeLoop(busy, i, cur, free, w_end) ==
    IF i > Len(busy) THEN [cur |-> cur, free |-> free]
    ELSE LET s == busy[i][1]
             e == busy[i][2]
             free2 == IF s > cur THEN Append(free, <<cur, s>>) ELSE free
         IN  IF e >= w_end THEN [cur |-> e, free |-> free2]
             ELSE BusyToFreeLoop(busy, i + 1, e, free2, w_end)

busy_to_free(busy, w_start, w_end) ==
    LET after == BusyToFreeLoop(busy, 1, w_start, <<>>, w_end)
    IN  IF after.cur < w_end THEN Append(after.free, <<after.cur, w_end>>)
        ELSE after.free

(***************************************************************************)
(* generate_candidate_slots                                                *)
(***************************************************************************)
\* ((free_start + interval_minutes - 1) // interval_minutes) * interval_minutes
FirstStartFloor(free_start, interval_minutes) ==
    FloorDiv(free_start, interval_minutes) * interval_minutes

FirstStart(free_start, interval_minutes) ==
    FloorDiv(free_start + interval_minutes - 1, interval_minutes) * interval_minutes

\* the while loop: current + duration <= free_end
RECURSIVE SlotsFromStrict(_, _, _, _)
SlotsFromStrict(current, free_end, dur, interval_minutes) ==
    IF current + dur < free_end
    THEN <<<<current, current + dur>>>>
         \o SlotsFromStrict(current + interval_minutes, free_end, dur, interval_minutes)
    ELSE <<>>

RECURSIVE SlotsFromOverrun(_, _, _, _)
SlotsFromOverrun(current, free_end, dur, interval_minutes) ==
    IF current < free_end
    THEN <<<<current, current + dur>>>>
         \o SlotsFromOverrun(current + interval_minutes, free_end, dur, interval_minutes)
    ELSE <<>>

RECURSIVE SlotsFrom(_, _, _, _)
SlotsFrom(current, free_end, dur, interval_minutes) ==
    IF current + dur <= free_end
    THEN <<<<current, current + dur>>>>
         \o SlotsFrom(current + interval_minutes, free_end, dur, interval_minutes)
    ELSE <<>>

RECURSIVE CandidatesLoop(_, _, _, _)
CandidatesLoop(free, i, dur, interval_minutes) ==
    IF i > Len(free) THEN <<>>
    ELSE SlotsFrom(FirstStart(free[i][1], interval_minutes), free[i][2], dur,
                   interval_minutes)
         \o CandidatesLoop(free, i + 1, dur, interval_minutes)

generate_candidate_slots(free, dur, interval_minutes) ==
    CandidatesLoop(free, 1, dur, interval_minutes)

(***************************************************************************)
(* Slot scoring                                                            *)
(***************************************************************************)
get_day_minutes(minutes_from_ref) == minutes_from_ref % 1440

\* <<start_day_min, end_day_min, day_of_week>>.  A datetime is held as the minutes
\* since 00:00 of a Monday, so hour * 60 + minute is that count modulo a day and
\* weekday() is the number of whole days modulo 7.
slot_to_day_info_end_weekday(slot, wsdt) ==
    IF wsdt # None
    THEN LET slot_start_dt == wsdt[1] + slot[1]
             slot_end_dt == wsdt[1] + slot[2]
         IN  <<slot_start_dt % 1440, slot_end_dt % 1440, (slot_end_dt \div 1440) % 7>>
    ELSE <<get_day_minutes(slot[1]), get_day_minutes(slot[2]), (slot[2] \div 1440) % 7>>

slot_to_day_info(slot, wsdt) ==
    IF wsdt # None
    THEN LET slot_start_dt == wsdt[1] + slot[1]
             slot_end_dt == wsdt[1] + slot[2]
         IN  <<slot_start_dt % 1440, slot_end_dt % 1440, (slot_start_dt \div 1440) % 7>>
    ELSE <<get_day_minutes(slot[1]), get_day_minutes(slot[2]), (slot[1] \div 1440) % 7>>

\* is_within_work_hours without its `if end_day_min < start_day_min: return False`
is_within_work_hours_no_wrap(slot, st, wsdt) ==
    LET info == slot_to_day_info(slot, wsdt)
    IN  info[1] >= st.work_hours_start /\ info[2] <= st.work_hours_end

is_within_work_hours(slot, st, wsdt) ==
    LET info == slot_to_day_info(slot, wsdt)
    IN  IF info[2] < info[1] THEN FALSE
        ELSE info[1] >= st.work_hours_start /\ info[2] <= st.work_hours_end

overlaps_lunch(slot, st, wsdt) ==
    LET info == slot_to_day_info(slot, wsdt)
    IN  ~(info[2] <= st.lunch_start \/ info[1] >= st.lunch_end)

\* <<is_early, is_late>>
is_early_or_late_strict(slot, st, wsdt) ==
    LET info == slot_to_day_info(slot, wsdt)
    IN  <<info[1] < st.work_hours_start, info[2] > st.work_hours_end>>

is_early_or_late(slot, st, wsdt) ==
    LET info == slot_to_day_info(slot, wsdt)
    IN  <<info[1] < st.work_hours_start + 60, info[2] > st.work_hours_end - 60>>

\* one check of score_slot: when it fires, score += delta and reasons.append(reason)
AdjustFloored(acc, fired, delta, reason) ==
    IF fired
    THEN [acc EXCEPT !.score = Max(0, acc.score + delta),
                     !.reasons = Append(acc.reasons, reason)]
    ELSE acc

AdjustPrepend(acc, fired, delta, reason) ==
    IF fired
    THEN [acc EXCEPT !.score = acc.score + delta, !.reasons = <<reason>> \o acc.reasons]
    ELSE acc

Adjust(acc, fired, delta, reason) ==
    IF fired
    THEN [acc EXCEPT !.score = acc.score + delta, !.reasons = Append(acc.reasons, reason)]
    ELSE acc

\* if not reasons: reasons.append("Perfect slot")
FinalReasonsAlways(reasons) == Append(reasons, "Perfect slot")

FinalReasons(reasons) ==
    IF reasons = <<>> THEN <<"Perfect slot">> ELSE reasons

\* max(0, score)
FinalScoreCapped(score) == Min(100, Max(0, score))

FinalScore(score) == Max(0, score)

\* f"{unique_timezones} timezones"
TimezonesReason(n) == ToString(n) \o " timezones"

\* hour = start_day_min // 60
start_hour_rounded(start_day_min) == (start_day_min + 30) \div 60

start_hour(start_day_min) == start_day_min \div 60

\* one `if` of score_slot: its condition, the dictionary and key it reads when the
\* condition holds ("flat" for a literal), the factor applied to the value read, and
\* the reason it appends
Check(fired, dict, key, factor, reason) ==
    [fired |-> fired, dict |-> dict, key |-> key, factor |-> factor, reason |-> reason]

\* the checks of score_slot in the order the function evaluates them; the day-of-week
\* checks are one if/elif chain, as are the in-person and virtual branches
ScoreChecks(slot, st, loc, ppl, wsdt) ==
    LET info == slot_to_day_info(slot, wsdt)
        start_day_min == info[1]
        end_day_min == info[2]
        day_of_week == info[3]
        hour == start_hour(start_day_min)
        early_late == is_early_or_late(slot, st, wsdt)
        unique_timezones == Cardinality({ppl[i].timezone : i \in 1..Len(ppl)})
    IN  << Check(~is_within_work_hours(slot, st, wsdt), "penalties", "outside_work_hours",
                 -1, "Outside work hours"),
           Check(overlaps_lunch(slot, st, wsdt), "penalties", "overlaps_lunch",
                 -1, "Overlaps lunch"),
           Check(early_late[1], "penalties", "early_morning", -1, "Early morning"),
           Check(early_late[2], "penalties", "late_evening", -1, "Late evening"),
           Check((10 <= hour /\ hour < 11) \/ (14 <= hour /\ hour < 15),
                 "bonuses", "optimal_time_slot", 1, "Optimal time of day"),
           Check(day_of_week >= 5, "penalties", "weekend", -1, "Weekend"),
           Check(day_of_week < 5 /\ day_of_week = 0, "bonuses", "monday_morning",
                 1, "Monday (fresh start)"),
           Check(day_of_week < 5 /\ day_of_week # 0 /\ day_of_week = 4,
                 "penalties", "friday_afternoon", -1, "Friday (end of week)"),
           Check(loc = "in-person" /\ 10 <= hour /\ hour < 15,
                 "bonuses", "in_person_midday", 1, "Good time for in-person"),
           Check(loc = "in-person" /\ hour < 9, "flat", "", -10, "Too early for in-person"),
           Check(loc # "in-person" /\ loc = "virtual", "bonuses", "virtual_meeting",
                 1, "Virtual (flexible)"),
           Check(start_day_min = st.work_hours_start, "penalties", "no_morning_buffer",
                 -1, "No morning buffer"),
           Check(end_day_min = st.work_hours_end, "penalties", "no_evening_buffer",
                 -1, "Runs to end of day"),
           Check(unique_timezones > 1, "penalties", "per_additional_timezone",
                 -(unique_timezones - 1), TimezonesReason(unique_timezones)) >>

\* penalties[key] / bonuses[key] raises KeyError when the key is absent; the read
\* happens only when the check's condition holds
RECURSIVE RunChecks(_, _, _, _)
RunChecks(checks, i, acc, st) ==
    IF i > Len(checks) \/ acc.raised # "" THEN acc
    ELSE LET c == checks[i]
         IN  IF ~c.fired THEN RunChecks(checks, i + 1, acc, st)
             ELSE IF c.dict = "flat"
             THEN RunChecks(checks, i + 1, Adjust(acc, TRUE, c.factor, c.reason), st)
             ELSE IF c.key \notin DOMAIN st[c.dict]
             THEN [acc EXCEPT !.raised = "KeyError"]
             ELSE RunChecks(checks, i + 1,
                            Adjust(acc, TRUE, c.factor * st[c.dict][c.key], c.reason), st)

\* score = 100, reasons = [] and then the checks
ScoreRun(slot, st, loc, ppl, wsdt) ==
    RunChecks(ScoreChecks(slot, st, loc, ppl, wsdt), 1,
              [score |-> 100, reasons |-> <<>>, raised |-> ""], st)

\* the exception score_slot raises, "" when it returns
score_slot_raised(slot, st, loc, ppl, wsdt) == ScoreRun(slot, st, loc, ppl, wsdt).raised

\* the ScoredSlot score_slot returns (when it returns)
score_slot(slot, st, loc, ppl, wsdt) ==
    LET a == ScoreRun(slot, st, loc, ppl, wsdt)
    IN  [start |-> slot[1], end |-> slot[2], score |-> FinalScore(a.score),
         reasons |-> FinalReasons(a.reasons)]

\* [score_slot(slot, ...) for slot in candidates]: the slots scored before the first
\* call that raises, and what that call raised
ScoreAll(cands, st, loc, ppl, wsdt) ==
    LET bad == {i \in 1..Len(cands) : score_slot_raised(cands[i], st, loc, ppl, wsdt) # ""}
        stop == IF bad = {} THEN Len(cands) + 1
                ELSE CHOOSE i \in bad : \A j \in bad : i <= j
    IN  [scored |-> [i \in 1..(stop - 1) |-> score_slot(cands[i], st, loc, ppl, wsdt)],
         raised |-> IF bad = {} THEN "" ELSE "KeyError"]

(***************************************************************************)
(* get_all_busy_intervals and find_optimal_slots                           *)
(***************************************************************************)
\* the inner loop: clip each event of one person, keep what is not None
RECURSIVE ClippedEvents(_, _, _)
ClippedEvents(events, w_start, w_end) ==
    IF events = <<>> THEN <<>>
    ELSE LET clipped == clip_interval(Head(events), w_start, w_end)
         IN  (IF clipped # None THEN <<clipped>> ELSE <<>>)
             \o ClippedEvents(Tail(events), w_start, w_end)

\* the outer loop over people, from person i on
RECURSIVE AllBusy(_, _, _, _)
AllBusy(ppl, i, w_start, w_end) ==
    IF i > Len(ppl) THEN <<>>
    ELSE ClippedEvents(ppl[i].events, w_start, w_end) \o AllBusy(ppl, i + 1, w_start, w_end)

GetAllBusyFirstPerson(ppl, w_start, w_end) ==
    IF ppl = <<>> THEN <<>>
    ELSE merge_intervals(ClippedEvents(ppl[1].events, w_start, w_end))

get_all_busy_intervals(ppl, w_start, w_end) ==
    merge_intervals(AllBusy(ppl, 1, w_start, w_end))

\* the place of x in a list sorted by score, descending: after every element whose
\* score is >= x's, so that equal scores keep their order (list.sort is stable, also
\* with reverse=True)
RECURSIVE InsertByScoreUnstable(_, _)
InsertByScoreUnstable(s, x) ==
    IF s = <<>> THEN <<x>>
    ELSE IF s[Len(s)].score > x.score THEN Append(s, x)
    ELSE Append(InsertByScoreUnstable(SubSeq(s, 1, Len(s) - 1), x), s[Len(s)])

RECURSIVE InsertByScore(_, _)
InsertByScore(s, x) ==
    IF s = <<>> THEN <<x>>
    ELSE IF s[Len(s)].score >= x.score THEN Append(s, x)
    ELSE Append(InsertByScore(SubSeq(s, 1, Len(s) - 1), x), s[Len(s)])

\* scored_slots.sort(key=lambda x: x.score, reverse=True)
RECURSIVE SortByScore(_)
SortByScore(s) ==
    IF s = <<>> THEN <<>>
    ELSE InsertByScore(SortByScore(SubSeq(s, 1, Len(s) - 1)), s[Len(s)])

\* scored_slots[:top_k] : a negative stop counts from the end of the list
SliceToAtLeastOne(s, k) ==
    SubSeq(s, 1, IF k < 0 THEN Max(0, Len(s) + k) ELSE Min(Max(k, 1), Len(s)))

SliceTo(s, k) ==
    SubSeq(s, 1, IF k < 0 THEN Max(0, Len(s) + k) ELSE Min(k, Len(s)))

\* the values find_optimal_slots computes; result is what it returns
find_optimal_slots(ppl, w_start, w_end, dur, loc, st, k, wsdt) ==
    LET busy == get_all_busy_intervals(ppl, w_start, w_end)
        free == busy_to_free(busy, w_start, w_end)
        cands == generate_candidate_slots(free, dur, st.interval_minutes)
        all == ScoreAll(cands, st, loc, ppl, wsdt)
        sorted == SortByScore(all.scored)
    IN  IF free = <<>>
        THEN [busy |-> busy, free |-> free, candidates |-> <<>>, scored |-> <<>>,
              result |-> <<>>, raised |-> ""]
        ELSE IF cands = <<>>
        THEN [busy |-> busy, free |-> free, candidates |-> cands, scored |-> <<>>,
              result |-> <<>>, raised |-> ""]
        ELSE IF all.raised # ""
        THEN [busy |-> busy, free |-> free, candidates |-> cands, scored |-> all.scored,
              result |-> <<>>, raised |-> all.raised]
        ELSE [busy |-> busy, free |-> free, candidates |-> cands, scored |-> sorted,
              result |-> SliceTo(sorted, k), raised |-> ""]

\* Person: the fields the scheduler reads
Person(tz, events) == [timezone |-> tz, events |-> events]

(***************************************************************************)
(* The copy of the pipeline in src/server/scheduler.py.  clip_interval,    *)
(* merge_intervals, busy_to_free, get_all_busy_intervals,                  *)
(* generate_candidate_slots and get_day_minutes are the same statements in *)
(* both files; the scoring functions and find_optimal_slots are written    *)
(* without window_start_dt and are translated here from the server file.   *)
(***************************************************************************)
server_is_within_work_hours(slot, st) ==
    LET start_day_min == get_day_minutes(slot[1])
        end_day_min == get_day_minutes(slot[2])
    IN  IF end_day_min < start_day_min THEN FALSE
        ELSE start_day_min >= st.work_hours_start /\ end_day_min <= st.work_hours_end

server_overlaps_lunch(slot, st) ==
    LET start_day_min == get_day_minutes(slot[1])
        end_day_min == get_day_minutes(slot[2])
    IN  ~(end_day_min <= st.lunch_start \/ start_day_min >= st.lunch_end)

\* <<is_early, is_late>>
server_is_early_or_late_inclusive(slot, st) ==
    LET start_day_min == get_day_minutes(slot[1])
        end_day_min == get_day_minutes(slot[2])
    IN  <<start_day_min <= st.work_hours_start + 60, end_day_min >= st.work_hours_end - 60>>

server_is_early_or_late(slot, st) ==
    LET start_day_min == get_day_minutes(slot[1])
        end_day_min == get_day_minutes(slot[2])
    IN  <<start_day_min < st.work_hours_start + 60, end_day_min > st.work_hours_end - 60>>

\* the checks of the server's score_slot in the order it evaluates them
server_ScoreChecks(slot, st, loc, ppl) ==
    LET early_late == server_is_early_or_late(slot, st)
        start_day_min == get_day_minutes(slot[1])
        hour == start_day_min \div 60
        day_of_week == (slot[1] \div 1440) % 7
        unique_timezones == Cardinality({ppl[i].timezone : i \in 1..Len(ppl)})
    IN  << Check(~server_is_within_work_hours(slot, st), "penalties",
                 "outside_work_hours", -1, "Outside work hours"),
           Check(server_overlaps_lunch(slot, st), "penalties", "overlaps_lunch",
                 -1, "Overlaps lunch"),
           Check(early_late[1], "penalties", "early_morning", -1, "Early morning"),
           Check(early_late[2], "penalties", "late_evening", -1, "Late evening"),
           Check((10 <= hour /\ hour < 11) \/ (14 <= hour /\ hour < 15),
                 "bonuses", "optimal_time_slot", 1, "Optimal time of day"),
           Check(day_of_week >= 5, "penalties", "weekend", -1, "Weekend"),
           Check(~(day_of_week >= 5) /\ day_of_week = 0, "bonuses", "monday_morning",
                 1, "Monday (fresh start)"),
           Check(~(day_of_week >= 5) /\ day_of_week # 0 /\ day_of_week = 4,
                 "penalties", "friday_afternoon", -1, "Friday (end of week)"),
           Check(loc = "in-person" /\ 10 <= hour /\ hour < 15,
                 "bonuses", "in_person_midday", 1, "Good time for in-person"),
           Check(loc = "in-person" /\ hour < 9, "flat", "", -10, "Too early for in-person"),
           Check(loc # "in-person" /\ loc = "virtual", "bonuses", "virtual_meeting",
                 1, "Virtual (flexible)"),
           Check(start_day_min = st.work_hours_start, "penalties", "no_morning_buffer",
                 -1, "No morning buffer"),
           Check(get_day_minutes(slot[2]) = st.work_hours_end, "penalties",
                 "no_evening_buffer", -1, "Runs to end of day"),
           Check(unique_timezones > 1, "penalties", "per_additional_timezone",
                 -(unique_timezones - 1), TimezonesReason(unique_timezones)) >>

\* score = 100.0, reasons = [] and then the checks
server_ScoreRun(slot, st, loc, ppl) ==
    RunChecks(server_ScoreChecks(slot, st, loc, ppl), 1,
              [score |-> 100, reasons |-> <<>>, raised |-> ""], st)

\* the ScoredSlot the server's score_slot returns (when it returns)
server_score_slot(slot, st, loc, ppl) ==
    LET a == server_ScoreRun(slot, st, loc, ppl)
    IN  [start |-> slot[1], end |-> slot[2],
         score |-> IF a.score < 0 THEN 0 ELSE a.score,
         reasons |-> IF a.reasons = <<>> THEN <<"Perfect slot">> ELSE a.reasons]

\* [score_slot(slot, settings, location_type, people) for slot in candidates]
server_ScoreAll(cands, st, loc, ppl) ==
    LET bad == {i \in 1..Len(cands) : server_ScoreRun(cands[i], st, loc, ppl).raised # ""}
        stop == IF bad = {} THEN Len(cands) + 1
                ELSE CHOOSE i \in bad : \A j \in bad : i <= j
    IN  [scored |-> [i \in 1..(stop - 1) |-> server_score_slot(cands[i], st, loc, ppl)],
         raised |-> IF bad = {} THEN "" ELSE "KeyError"]

\* the server's find_optimal_slots: its candidates, what it returns and what it raises
server_find_optimal_slots(ppl, w_start, w_end, dur, loc, st, k) ==
    LET busy == get_all_busy_intervals(ppl, w_start, w_end)
        free == busy_to_free(busy, w_start, w_end)
        cands == generate_candidate_slots(free, dur, st.interval_minutes)
        all == server_ScoreAll(cands, st, loc, ppl)
        sorted == SortByScore(all.scored)
    IN  IF free = <<>> THEN [candidates |-> <<>>, result |-> <<>>, raised |-> ""]
        ELSE IF cands = <<>> THEN [candidates |-> cands, result |-> <<>>, raised |-> ""]
        ELSE IF all.raised # ""
        THEN [candidates |-> cands, result |-> <<>>, raised |-> all.raised]
        ELSE [candidates |-> cands, result |-> SliceTo(sorted, k), raised |-> ""]

(***************************************************************************)
(* create_meeting_from_payload (src/server/scheduler.py).  A datetime is   *)
(* timezone-aware: the seconds since 1970-01-01T00:00:00Z, a Thursday, and *)
(* its UTC offset in seconds.                                              *)
(***************************************************************************)
DateTime(sec, offset) == [sec |-> sec, offset |-> offset]

\* dt.astimezone(timezone.utc): the same instant, offset 0
astimezone_utc(dt) == DateTime(dt.sec, 0)

\* seconds on the datetime's own wall clock since 1970-01-01 00:00 of that clock
WallClock(dt) == dt.sec + dt.offset

\* dt.weekday(): 0 = Monday ... 6 = Sunday; day 0 of the count is a Thursday
weekday(dt) == ((WallClock(dt) \div 86400) + 3) % 7

\* dt - timedelta(days=n)
minus_days(dt, n) == DateTime(dt.sec - n * 86400, dt.offset)

\* dt + timedelta(minutes=n)
plus_minutes(dt, n) == DateTime(dt.sec + n * 60, dt.offset)

\* dt.replace(hour=0, minute=0, second=0, microsecond=0)
replace_midnight(dt) == DateTime((WallClock(dt) \div 86400) * 86400 - dt.offset, dt.offset)

\* _start_of_week without the step back to Monday
start_of_week_same_day(dt) == replace_midnight(astimezone_utc(dt))

start_of_week(dt) ==
    LET utc == astimezone_utc(dt)
    IN  replace_midnight(minus_days(utc, weekday(utc)))

\* int((dt - reference).total_seconds() // 60)
to_minutes(dt, reference) == (dt.sec - reference.sec) \div 60

\* a "start" / "end" value of a payload event: null, an integer, an ISO string that
\* parses to the datetime v, or a string that does not parse
PayloadValue(kind, v) == [kind |-> kind, v |-> v]

\* _parse_event_time: <<>> for None, else <<minutes>>
parse_event_time(value, reference) ==
    CASE value.kind = "int" -> <<value.v>>
      [] value.kind = "str" -> <<to_minutes(value.v, reference)>>
      [] OTHER -> <<>>

\* the events of one payload entry, from index i on, those with two readable times
RECURSIVE PayloadEvents(_, _, _)
PayloadEvents(events, i, reference) ==
    IF i > Len(events) THEN <<>>
    ELSE LET start_min == parse_event_time(events[i].start, reference)
             end_min == parse_event_time(events[i].end, reference)
             rest == PayloadEvents(events, i + 1, reference)
         IN  IF start_min = <<>> \/ end_min = <<>> THEN rest
             ELSE <<<<start_min[1], end_min[1]>>>> \o rest

\* _build_people_from_payload; a missing timezone is "" and becomes "UTC"
build_people_from_payload(payload, reference) ==
    [i \in 1..Len(payload) |->
        Person(IF payload[i].timezone = "" THEN "UTC" ELSE payload[i].timezone,
               PayloadEvents(payload[i].events, 1, reference))]

\* create_meeting_from_payload: the values it computes, what it returns (<<>> for
\* None, else <<start_dt, end_dt>> beside the scored list) and what it raises
create_meeting_from_payload(payload, ws, we, dur, loc, st, k) ==
    LET nothing == [reference |-> <<>>, people |-> <<>>, w_start_min |-> 0,
                    w_end_min |-> 0, candidates |-> <<>>, scored |-> <<>>,
                    return |-> <<>>, raised |-> ""]
    IN  IF ws = <<>> \/ we = <<>> THEN nothing
        ELSE CHOOSE out \in
            {IF Len(payload) = 0 THEN [nothing EXCEPT !.reference = <<reference_dt>>]
             ELSE CHOOSE r \in
                {[reference |-> <<reference_dt>>,
                  people |-> found.people,
                  w_start_min |-> found.w_start,
                  w_end_min |-> found.w_end,
                  candidates |-> found.r.candidates,
                  scored |-> found.r.result,
                  return |-> IF found.r.raised # "" \/ found.r.result = <<>> THEN <<>>
                             ELSE <<plus_minutes(reference_dt, found.r.result[1].start),
                                    plus_minutes(reference_dt, found.r.result[1].end)>>,
                  raised |-> found.r.raised] :
                    found \in
                      {[people |-> ppl,
                        w_start |-> to_minutes(ws[1], reference_dt),
                        w_end |-> to_minutes(we[1], reference_dt),
                        r |-> server_find_optimal_slots(
                                  ppl, to_minutes(ws[1], reference_dt),
                                  to_minutes(we[1], reference_dt), dur, loc, st, k)] :
                          ppl \in {build_people_from_payload(payload, reference_dt)}}} :
                TRUE :
                reference_dt \in {start_of_week(ws[1])}} : TRUE

(***************************************************************************)
(* Google Calendar events: google_event_to_interval,                       *)
(* build_people_from_google_events and create_meeting_with_dates.          *)
(* An instant is a number of seconds after 00:00 of a Monday in the        *)
(* window's timezone; astimezone() does not change the instant.            *)
(***************************************************************************)
\* a start / end entry of an event: {"dateTime": ...}, {"date": ...}, a dateTime
\* string that does not parse, an entry with neither key, or null in place of the
\* entry or of its string
Timestamp(kind, t) == [kind |-> kind, t |-> t]

GoogleEvent(start, end) == [start |-> start, end |-> end]

\* _parse_google_event_time with _parse_iso_datetime: the instant, or what is raised
\* (fromisoformat and the unpacking of date raise ValueError, start_or_end["date"]
\* raises KeyError, a null raises TypeError or AttributeError)
parse_google_event_time(ts) ==
    CASE ts.kind = "dateTime" -> [raised |-> "", dt |-> ts.t]
      [] ts.kind = "date" -> [raised |-> "", dt |-> ts.t * 86400]
      [] ts.kind = "unparsable" -> [raised |-> "ValueError", dt |-> 0]
      [] ts.kind = "missing" -> [raised |-> "KeyError", dt |-> 0]
      [] ts.kind = "null" -> [raised |-> "TypeError", dt |-> 0]

\* start_dt = max(start_dt, window_start_dt)
ClampStartNone(start, ws) == start

ClampStart(start, ws) == Max(start, ws)

\* end_dt = min(end_dt, window_end_dt)
ClampEnd(end, we) == Min(end, we)

\* int((dt - window_start_dt).total_seconds() // 60)
MinutesFrom(dt, ws) == (dt - ws) \div 60

\* except (KeyError, ValueError): return None
Caught == {"KeyError", "ValueError"}

\* [raised, interval]: interval is None when the event is dropped
google_event_to_interval(event, ws, we) ==
    LET s == parse_google_event_time(event.start)
        e == parse_google_event_time(event.end)
        exc == IF s.raised # "" THEN s.raised ELSE e.raised
        start_min == MinutesFrom(ClampStart(s.dt, ws), ws)
        end_min == MinutesFrom(ClampEnd(e.dt, we), ws)
    IN  IF exc \in Caught THEN [raised |-> "", interval |-> None]
        ELSE IF exc # "" THEN [raised |-> exc, interval |-> None]
        ELSE IF e.dt <= ws \/ s.dt >= we THEN [raised |-> "", interval |-> None]
        ELSE IF end_min <= start_min THEN [raised |-> "", interval |-> None]
        ELSE [raised |-> "", interval |-> <<start_min, end_min>>]

\* for ev in p.get("events", []): the events kept, from event i on
RECURSIVE EventsInWindow(_, _, _, _)
EventsInWindow(events, i, ws, we) ==
    IF i > Len(events) THEN [raised |-> "", events |-> <<>>]
    ELSE LET iv == google_event_to_interval(events[i], ws, we)
             rest == EventsInWindow(events, i + 1, ws, we)
         IN  IF iv.raised # "" THEN [raised |-> iv.raised, events |-> <<>>]
             ELSE IF rest.raised # "" THEN rest
             ELSE [raised |-> "",
                   events |-> (IF iv.interval # None THEN <<iv.interval>> ELSE <<>>)
                              \o rest.events]

\* for p in people_events: ... people.append(Person(...))
build_people_from_google_events(pe, ws, we) ==
    LET built == [i \in 1..Len(pe) |-> EventsInWindow(pe[i].events, 1, ws, we)]
        bad == {i \in 1..Len(pe) : built[i].raised # ""}
    IN  IF bad # {}
        THEN [raised |-> built[CHOOSE i \in bad : \A j \in bad : i <= j].raised,
              people |-> <<>>]
        ELSE [raised |-> "",
              people |-> [i \in 1..Len(pe) |-> Person(pe[i].timezone, built[i].events)]]

\* create_meeting_with_dates from `if not people` on, with the people built
ScheduleBuilt(ppl, ws, we, dur, loc, st, k) ==
    LET window_min == MinutesFrom(we, ws)
        r == find_optimal_slots(ppl, 0, window_min, dur, loc, st, k, <<ws \div 60>>)
    IN  IF ppl = <<>>
        THEN [raised |-> "", people |-> <<>>, busy |-> <<>>, free |-> <<>>,
              candidates |-> <<>>, scored |-> <<>>, result |-> <<>>,
              window_min |-> 0, window_start_dt |-> None]
        ELSE [raised |-> r.raised, people |-> ppl, busy |-> r.busy,
              free |-> r.free, candidates |-> r.candidates, scored |-> r.scored,
              result |-> r.result, window_min |-> window_min,
              window_start_dt |-> <<ws \div 60>>]

\* what create_meeting_with_dates raises and returns, and the lists it computes on
\* the way (the settings file is taken to load)
create_meeting_with_dates(ws, we, pe, dur, loc, st, k) ==
    LET nothing == [raised |-> "", people |-> <<>>, busy |-> <<>>, free |-> <<>>,
                    candidates |-> <<>>, scored |-> <<>>, result |-> <<>>,
                    window_min |-> 0, window_start_dt |-> None]
    IN  IF we <= ws THEN [nothing EXCEPT !.raised = "ValueError"]
        ELSE CHOOSE r \in
                 {IF built.raised # "" THEN [nothing EXCEPT !.raised = built.raised]
                  ELSE ScheduleBuilt(built.people, ws, we, dur, loc, st, k) :
                     built \in {build_people_from_google_events(pe, ws, we)}} : TRUE

(***************************************************************************)
(* Input sets.                                                             *)
(***************************************************************************)
IntervalsOver(points) == {<<a, b>> : a \in points, b \in points} \ {<<a, b>> \in points \X points : a >= b}

SeqsUpTo(S, n) == UNION {[1..k -> S] : k \in 0..n}

MergePoints == {30 * i : i \in 0..MergeMaxTick}

\* the lists merge_intervals can return over the given points: at most n intervals,
\* each ending strictly before the next starts
RECURSIVE MergedLists(_, _)
MergedLists(points, n) ==
    IF n = 0 THEN {<<>>}
    ELSE {<<>>} \cup
         UNION {{<<iv>> \o rest : rest \in MergedLists({p \in points : p > iv[2]}, n - 1)} :
                iv \in IntervalsOver(points)}

FreePoints == {15 * i : i \in 0..FreeMaxTick}

CandPoints == {15 * i : i \in -1..CandMaxTick}

CandDurations == {15, 30, 60}

CandGrids == {10, 15, 20, 30}

\* OrgSettings as load_org_settings builds it; the bonuses are those of the
\* specification's scoring scenario
DefaultSettings ==
    [work_hours_start |-> 540, work_hours_end |-> 1020,
     lunch_start |-> 720, lunch_end |-> 780,
     penalties |-> [outside_work_hours |-> 50, overlaps_lunch |-> 30,
                    early_morning |-> 15, late_evening |-> 15, weekend |-> 40,
                    friday_afternoon |-> 10, no_morning_buffer |-> 5,
                    no_evening_buffer |-> 5, per_additional_timezone |-> 5],
     bonuses |-> [optimal_time_slot |-> 10, monday_morning |-> 5,
                  in_person_midday |-> 8, virtual_meeting |-> 5],
     interval_minutes |-> 15]

\* a stricter organisation: penalties that can take a score below zero
StrictSettings ==
    [work_hours_start |-> 480, work_hours_end |-> 960,
     lunch_start |-> 690, lunch_end |-> 750,
     penalties |-> [outside_work_hours |-> 80, overlaps_lunch |-> 45,
                    early_morning |-> 20, late_evening |-> 25, weekend |-> 60,
                    friday_afternoon |-> 30, no_morning_buffer |-> 10,
                    no_evening_buffer |-> 10, per_additional_timezone |-> 7],
     bonuses |-> [optimal_time_slot |-> 12, monday_morning |-> 3,
                  in_person_midday |-> 9, virtual_meeting |-> 4],
     interval_minutes |-> 30]

\* minutes of the day at which the scored slots start
ScoreDayMinutes == {420, 480, 540, 555, 600, 615, 660, 720, 840, 900, 930, 960, 1380, 1410}

ScoreDurations == {30, 60, 90}

ScoreSlots ==
    {<<d * 1440 + m, d * 1440 + m + len>> :
        d \in 0..ScoreMaxDay, m \in ScoreDayMinutes, len \in ScoreDurations}

Timezones == <<"America/New_York", "America/Los_Angeles", "UTC", "Europe/Paris">>

\* n people without events, in z distinct timezones
PeopleInZones(n, z) == [i \in 1..n |-> Person(Timezones[Min(i, z)], <<>>)]

LocationTypes == {"virtual", "in-person", "hybrid"}

\* None (minutes count from the Monday 00:00 that starts the week), or a window that
\* starts on a Wednesday at 09:00
StartDatetimes == {None, <<3420>>}

\* find_optimal_slots: the window starts at 09:30 on the Monday of the origin
\* (window_start_dt None), or it is the origin itself and a datetime says when that
\* is: a Thursday at 13:30 (create_meeting_with_dates)
PipeWindowStarts == {<<570, None>>, <<0, <<5130>>>>}

PipeWindowLengths == {30, 60, 90}

\* where events start and end, relative to the start of the window
PipeOffsets == {-30, 0, 30, 60, 90}

PipeDurations == {30, 60}

PipeTopK == {-1, 0, 2, 5}

\* two people in two timezones; the first holds the first event, the second the rest
PipePeople(events) ==
    <<Person(Timezones[1], SubSeq(events, 1, Min(1, Len(events)))),
      Person(Timezones[2], SubSeq(events, 2, Len(events)))>>

Shifted(events, by) == [i \in 1..Len(events) |-> <<events[i][1] + by, events[i][2] + by>>]

\* the variables a specification does not use
Idle(used) ==
    /\ "intervals" \in used \/ intervals = <<>>
    /\ "people" \in used \/ people = <<>>
    /\ "window_start" \in used \/ window_start = 0
    /\ "window_end" \in used \/ window_end = 0
    /\ "duration" \in used \/ duration = 0
    /\ "location_type" \in used \/ location_type = "virtual"
    /\ "settings" \in used \/ settings = DefaultSettings
    /\ "top_k" \in used \/ top_k = 5
    /\ "window_start_dt" \in used \/ window_start_dt = None
    /\ "busy_intervals" \in used \/ busy_intervals = <<>>
    /\ "free_intervals" \in used \/ free_intervals = <<>>
    /\ "candidates" \in used \/ candidates = <<>>
    /\ "scored_slots" \in used \/ scored_slots = <<>>
    /\ "result" \in used \/ result = <<>>
    /\ "raised" \in used \/ raised = ""
    /\ "people_events" \in used \/ people_events = <<>>
    /\ "start_dt" \in used \/ start_dt = 0
    /\ "end_dt" \in used \/ end_dt = 0
    /\ "free_index" \in used \/ free_index = 0
    /\ "loop_current" \in used \/ loop_current = 0
    /\ "server_result" \in used \/ (server_result = <<>> /\ server_raised = "")
    /\ "payload" \in used \/ (/\ people_payload = <<>>
                               /\ payload_window = <<>>
                               /\ reference_start = <<>>
                               /\ payload_return = <<>>)
    /\ "notifications" \in used \/ (/\ notifications = <<>>
                                     /\ invites = <<>>
                                     /\ calendar_synced = FALSE
                                     /\ calendar_events = 0
                                     /\ requests = <<>>
                                     /\ sync_log = <<>>)

(***************************************************************************)
(* merge_intervals applied to a list of intervals.                         *)
(***************************************************************************)
InitMerge ==
    /\ pc = "start"
    /\ intervals \in SeqsUpTo(IntervalsOver(MergePoints), MergeMaxLen)
    /\ Idle({"intervals"})

MergeIntervals ==
    /\ pc = "start"
    /\ pc' = "done"
    /\ busy_intervals' = merge_intervals(intervals)
    /\ intervals' = ArgumentAfterSorted(intervals)
    /\ UNCHANGED <<people, window_start, window_end, duration, location_type,
                   settings, top_k, window_start_dt, free_intervals, candidates,
                   scored_slots, result, raised, createVars, twinVars,
                   payloadVars, notifyVars, loopVars>>

SpecMerge == InitMerge /\ [][MergeIntervals]_vars

(***************************************************************************)
(* Properties of interval lists.                                           *)
(***************************************************************************)
Cover(s) == UNION {{m \in s[i][1]..(s[i][2] - 1) : TRUE} : i \in 1..Len(s)}

SortedByStart(s) == \A i \in 1..(Len(s) - 1) : s[i][1] <= s[i + 1][1]

PairwiseDisjoint(s) ==
    \A i \in 1..Len(s) : \A j \in 1..Len(s) :
        i # j => (s[i][2] <= s[j][1] \/ s[j][2] <= s[i][1])

WellFormed(s) == \A i \in 1..Len(s) : s[i][1] < s[i][2]

\* C2: merge_intervals returns a list sorted by start, pairwise disjoint, whose
\* intervals are non-empty and that covers exactly the minutes of the input intervals.
C2_MergeCorrect ==
    pc = "done" =>
        /\ SortedByStart(busy_intervals)
        /\ PairwiseDisjoint(busy_intervals)
        /\ WellFormed(busy_intervals)
        /\ Cover(busy_intervals) = Cover(intervals)

\* an unsorted argument with a duplicate and an overlap has been merged
C2_Witness ==
    /\ pc = "done"
    /\ intervals = <<<<60, 120>>, <<0, 90>>, <<60, 120>>>>
    /\ busy_intervals = <<<<0, 120>>>>

\* C3: touching intervals are merged too: consecutive output intervals are strictly
\* separated (previous.end < next.start).
C3_TouchingMerged ==
    pc = "done" =>
        \A i \in 1..(Len(busy_intervals) - 1) :
            busy_intervals[i][2] < busy_intervals[i + 1][1]

\* Scenario A of the specification
C3_Witness ==
    /\ pc = "done"
    /\ intervals = <<<<0, 30>>, <<30, 60>>, <<90, 120>>>>
    /\ busy_intervals = <<<<0, 60>>, <<90, 120>>>>

(***************************************************************************)
(* busy_to_free applied to a merged busy list and a window.                *)
(***************************************************************************)
InitFree ==
    /\ pc = "start"
    /\ busy_intervals \in MergedLists(FreePoints, FreeMaxLen)
    /\ window_start \in FreePoints
    /\ window_end \in FreePoints
    /\ Idle({"busy_intervals", "window_start", "window_end"})

BusyToFree ==
    /\ pc = "start"
    /\ pc' = "done"
    /\ free_intervals' = busy_to_free(busy_intervals, window_start, window_end)
    /\ UNCHANGED <<intervals, people, window_start, window_end, duration, location_type,
                   settings, top_k, window_start_dt, busy_intervals, candidates,
                   scored_slots, result, raised, createVars, twinVars,
                   payloadVars, notifyVars, loopVars>>

SpecFree == InitFree /\ [][BusyToFree]_vars

Window == window_start..(window_end - 1)

\* C4: for every merged busy list and every window with w_start < w_end, the free list
\* is sorted and disjoint, disjoint from busy, inside the window, and together with
\* busy restricted to the window it is exactly the window.
C4_Partition ==
    (pc = "done" /\ window_start < window_end) =>
        /\ SortedByStart(free_intervals)
        /\ PairwiseDisjoint(free_intervals)
        /\ Cover(free_intervals) \cap Cover(busy_intervals) = {}
        /\ Cover(free_intervals) \subseteq Window
        /\ Cover(free_intervals) \cup (Cover(busy_intervals) \cap Window) = Window

(***************************************************************************)
(* generate_candidate_slots applied to free gaps, a duration and a grid.   *)
(***************************************************************************)
InitCand ==
    /\ pc = "start"
    /\ free_intervals \in MergedLists(CandPoints, CandMaxLen)
    /\ duration \in CandDurations
    /\ settings \in {[DefaultSettings EXCEPT !.interval_minutes = g] : g \in CandGrids}
    /\ Idle({"free_intervals", "duration", "settings"})

GenerateCandidateSlots ==
    /\ pc = "start"
    /\ pc' = "done"
    /\ candidates' = generate_candidate_slots(free_intervals, duration,
                                              settings.interval_minutes)
    /\ UNCHANGED <<intervals, people, window_start, window_end, duration, location_type,
                   settings, top_k, window_start_dt, busy_intervals, free_intervals,
                   scored_slots, result, raised, createVars, twinVars,
                   payloadVars, notifyVars, loopVars>>

SpecCand == InitCand /\ [][GenerateCandidateSlots]_vars

Inside(slot, gap) == gap[1] <= slot[1] /\ slot[2] <= gap[2]

\* C5: every candidate has length duration, starts on a multiple of interval_minutes
\* and lies inside exactly one of the free intervals.
C5_CandidateValid ==
    pc = "done" =>
        \A i \in 1..Len(candidates) :
            /\ candidates[i][2] - candidates[i][1] = duration
            /\ candidates[i][1] % settings.interval_minutes = 0
            /\ Cardinality({g \in 1..Len(free_intervals) :
                                Inside(candidates[i], free_intervals[g])}) = 1

\* a gap that starts off the grid has produced a slot
C5_Witness ==
    /\ pc = "done"
    /\ free_intervals = <<<<-15, 15>>, <<45, 90>>>>
    /\ duration = 15
    /\ settings.interval_minutes = 20
    /\ candidates = <<<<0, 15>>, <<60, 75>>>>

\* the starts s on the grid with [s, s + duration) inside one of the free intervals
GridStarts ==
    {s \in (-15)..(15 * (CandMaxTick + 1)) :
        /\ s % settings.interval_minutes = 0
        /\ \E g \in 1..Len(free_intervals) :
               Inside(<<s, s + duration>>, free_intervals[g])}

\* C6: the candidates are exactly the grid-aligned slots that fit a free gap, each
\* once, in strictly ascending order of start (which is gap order).
C6_CandidatesExact ==
    pc = "done" =>
        /\ Range(candidates) = {<<s, s + duration>> : s \in GridStarts}
        /\ \A i \in 1..(Len(candidates) - 1) : candidates[i][1] < candidates[i + 1][1]

\* Scenario B of the specification
C6_Witness ==
    /\ pc = "done"
    /\ free_intervals = <<<<0, 90>>>>
    /\ duration = 60
    /\ settings.interval_minutes = 15
    /\ candidates = <<<<0, 60>>, <<15, 75>>, <<30, 90>>>>

(***************************************************************************)
(* score_slot applied to one slot: the list comprehension of               *)
(* find_optimal_slots over a one-element candidate list.                   *)
(***************************************************************************)
InitScore ==
    /\ pc = "start"
    /\ candidates \in {<<s>> : s \in ScoreSlots}
    /\ settings \in {DefaultSettings, StrictSettings}
    /\ location_type \in LocationTypes
    /\ people \in {PeopleInZones(ScoreMaxZones, z) : z \in 1..ScoreMaxZones}
    /\ window_start_dt \in StartDatetimes
    /\ Idle({"candidates", "settings", "location_type", "people", "window_start_dt"})

ScoreCandidates ==
    /\ pc = "start"
    /\ pc' = "done"
    /\ LET r == ScoreAll(candidates, settings, location_type, people, window_start_dt)
       IN  /\ scored_slots' = r.scored
           /\ raised' = r.raised
    /\ UNCHANGED <<intervals, people, window_start, window_end, duration, location_type,
                   settings, top_k, window_start_dt, busy_intervals, free_intervals,
                   candidates, result, createVars, twinVars,
                   payloadVars, notifyVars, loopVars>>

SpecScore == InitScore /\ [][ScoreCandidates]_vars

NumZones == Cardinality({people[i].timezone : i \in 1..Len(people)})

\* what the check named by a reason adds to the score
ReasonDelta(reason) ==
    CASE reason = "Outside work hours" -> -settings.penalties["outside_work_hours"]
      [] reason = "Overlaps lunch" -> -settings.penalties["overlaps_lunch"]
      [] reason = "Early morning" -> -settings.penalties["early_morning"]
      [] reason = "Late evening" -> -settings.penalties["late_evening"]
      [] reason = "Optimal time of day" -> settings.bonuses["optimal_time_slot"]
      [] reason = "Weekend" -> -settings.penalties["weekend"]
      [] reason = "Monday (fresh start)" -> settings.bonuses["monday_morning"]
      [] reason = "Friday (end of week)" -> -settings.penalties["friday_afternoon"]
      [] reason = "Good time for in-person" -> settings.bonuses["in_person_midday"]
      [] reason = "Too early for in-person" -> -10
      [] reason = "Virtual (flexible)" -> settings.bonuses["virtual_meeting"]
      [] reason = "No morning buffer" -> -settings.penalties["no_morning_buffer"]
      [] reason = "Runs to end of day" -> -settings.penalties["no_evening_buffer"]
      [] reason = "Perfect slot" -> 0
      [] OTHER -> -((NumZones - 1) * settings.penalties["per_additional_timezone"])

RECURSIVE SumDeltas(_)
SumDeltas(reasons) ==
    IF reasons = <<>> THEN 0
    ELSE ReasonDelta(reasons[1]) + SumDeltas(Tail(reasons))

\* C9: the score is max(0, 100 + bonuses of the fired checks - penalties of the fired
\* checks): floored at 0 once, at the end, and not capped above.
C9_ScoreFormula ==
    pc = "done" =>
        \A i \in 1..Len(scored_slots) :
            /\ scored_slots[i].score = Max(0, 100 + SumDeltas(scored_slots[i].reasons))
            /\ scored_slots[i].score >= 0

\* Scenario C of the specification: Monday 10:15-11:15, virtual, one timezone, 120
C9_Witness ==
    /\ pc = "done"
    /\ settings = DefaultSettings
    /\ candidates = <<<<615, 675>>>>
    /\ window_start_dt = None
    /\ \E i \in 1..Len(scored_slots) :
          /\ scored_slots[i].score = 120
          /\ scored_slots[i].reasons =
                <<"Optimal time of day", "Monday (fresh start)", "Virtual (flexible)">>

\* the conditions of the checks of score_slot, none of which holds of the slot
NoCheckFires(slot) ==
    LET info == slot_to_day_info(slot, window_start_dt)
        hour == info[1] \div 60
    IN  /\ is_within_work_hours(slot, settings, window_start_dt)
        /\ ~overlaps_lunch(slot, settings, window_start_dt)
        /\ is_early_or_late(slot, settings, window_start_dt) = <<FALSE, FALSE>>
        /\ hour \notin {10, 14}
        /\ info[3] \in {1, 2, 3}
        /\ location_type # "virtual"
        /\ location_type = "in-person" => hour \notin 10..14 /\ hour >= 9
        /\ info[1] # settings.work_hours_start
        /\ info[2] # settings.work_hours_end
        /\ NumZones <= 1

\* C10: reasons is never empty; it is <<"Perfect slot">> exactly when no check fired,
\* the score is then 100, and "Perfect slot" never stands beside another reason.
C10_PerfectSlot ==
    pc = "done" =>
        \A i \in 1..Len(scored_slots) :
            LET r == scored_slots[i].reasons
            IN  /\ r # <<>>
                /\ "Perfect slot" \in Range(r) => r = <<"Perfect slot">>
                /\ r = <<"Perfect slot">> <=> NoCheckFires(candidates[i])
                /\ r = <<"Perfect slot">> => scored_slots[i].score = 100

C10_Witness ==
    /\ pc = "done"
    /\ \E i \in 1..Len(scored_slots) :
          /\ scored_slots[i].reasons = <<"Perfect slot">>
          /\ scored_slots[i].score = 100

\* the place of a reason in the evaluation order of score_slot, 0 for a string that is
\* not in it; the day-of-week reasons share a place
ReasonPlace(r) ==
    CASE r = "Outside work hours" -> 1
      [] r = "Overlaps lunch" -> 2
      [] r = "Early morning" -> 3
      [] r = "Late evening" -> 4
      [] r = "Optimal time of day" -> 5
      [] r \in {"Weekend", "Monday (fresh start)", "Friday (end of week)"} -> 6
      [] r = "Good time for in-person" -> 7
      [] r \in {"Too early for in-person", "Virtual (flexible)"} -> 8
      [] r = "No morning buffer" -> 9
      [] r = "Runs to end of day" -> 10
      [] r \in {TimezonesReason(n) : n \in 2..ScoreMaxZones} -> 11
      [] OTHER -> 0

\* reasons is a subsequence, without repetition, of the evaluation order, with one
\* day-of-week reason at most and the in-person reasons never beside the virtual one
InEvaluationOrder(reasons) ==
    /\ \A i \in 1..Len(reasons) : ReasonPlace(reasons[i]) # 0
    /\ \A i, j \in 1..Len(reasons) :
          i < j => ReasonPlace(reasons[i]) < ReasonPlace(reasons[j])
    /\ "Virtual (flexible)" \in Range(reasons) =>
          "Good time for in-person" \notin Range(reasons)

\* C11 as stated: the reasons of every ScoredSlot are a subsequence, without
\* repetition, of the fixed evaluation order of the checks.
C11_ReasonsInOrder ==
    pc = "done" =>
        \A i \in 1..Len(scored_slots) : InEvaluationOrder(scored_slots[i].reasons)

\* C11, amended: the reasons of every ScoredSlot are either the single placeholder
\* "Perfect slot" or a subsequence, without repetition, of the fixed evaluation order.
C11_ReasonsInOrderOrPerfect ==
    pc = "done" =>
        \A i \in 1..Len(scored_slots) :
            \/ scored_slots[i].reasons = <<"Perfect slot">>
            \/ InEvaluationOrder(scored_slots[i].reasons)

\* the Monday 10:15-11:15 virtual slot, one timezone: three reasons, in order
C11_Witness ==
    /\ pc = "done"
    /\ settings = DefaultSettings
    /\ location_type = "virtual"
    /\ NumZones = 1
    /\ candidates = <<<<615, 675>>>>
    /\ Len(scored_slots) = 1
    /\ scored_slots[1].score = 100 + 10 + 5 + 5
    /\ scored_slots[1].reasons =
          <<"Optimal time of day", "Monday (fresh start)", "Virtual (flexible)">>
    /\ InEvaluationOrder(scored_slots[1].reasons)


\* the instant the slot offsets count from, in minutes after a Monday 00:00: the
\* window's start when a datetime was passed, else the Monday itself
Origin == IF window_start_dt = None THEN 0 ELSE window_start_dt[1]

\* minute of the day of an instant
DayMinute(t) == t - 1440 * (t \div 1440)

HasReason(s, reason) == \E j \in 1..Len(s.reasons) : s.reasons[j] = reason

\* C21: "Outside work hours" is among the reasons, and penalties.outside_work_hours
\* is subtracted, exactly when the slot's start-of-day minute is below
\* work_hours_start, or its end-of-day minute is above work_hours_end, or its
\* end-of-day minute is less than its start-of-day minute (day-wrap); otherwise
\* the reason is absent and nothing is subtracted for it.
C21_OutsideWorkHours ==
    pc = "done" =>
        \A i \in 1..Len(scored_slots) :
            LET s == scored_slots[i]
                start_min == DayMinute(Origin + s.start)
                end_min == DayMinute(Origin + s.end)
                violation == \/ start_min < settings.work_hours_start
                             \/ end_min > settings.work_hours_end
                             \/ end_min < start_min
                others == SelectSeq(s.reasons, LAMBDA r : r # "Outside work hours")
            IN  /\ HasReason(s, "Outside work hours") <=> violation
                /\ violation =>
                      /\ s.reasons[1] = "Outside work hours"
                      /\ s.score = Max(0, 100 + SumDeltas(others)
                                           - settings.penalties["outside_work_hours"])
                /\ ~violation => s.score = Max(0, 100 + SumDeltas(others))

\* a slot from 23:00 to 00:30: both day minutes are inside [540, 1020] taken one by
\* one (1380 >= 540, 30 <= 1020), the wrap alone makes it a violation
C21_Witness ==
    /\ pc = "done"
    /\ settings = DefaultSettings
    /\ window_start_dt = None
    /\ Len(scored_slots) = 1
    /\ DayMinute(scored_slots[1].start) = 1380
    /\ DayMinute(scored_slots[1].end) = 30
    /\ scored_slots[1].reasons[1] = "Outside work hours"

\* days between the Monday of the origin and an instant, and the instant's weekday
\* (0 = Monday ... 6 = Sunday)
DaysSinceMonday(t) == (t - DayMinute(t)) \div 1440

Weekday(t) == DaysSinceMonday(t) - 7 * (DaysSinceMonday(t) \div 7)

DayReasons == {"Weekend", "Monday (fresh start)", "Friday (end of week)"}

\* the day-of-week reason the weekday calls for, "" for Tuesday to Thursday
DayReasonOf(day) ==
    CASE day \in {5, 6} -> "Weekend"
      [] day = 0 -> "Monday (fresh start)"
      [] day = 4 -> "Friday (end of week)"
      [] OTHER -> ""

\* C23: every slot gets at most one day-of-week adjustment, chosen by the weekday of
\* the slot's start: Saturday and Sunday subtract penalties.weekend ("Weekend"),
\* Monday adds bonuses.monday_morning ("Monday (fresh start)"), Friday subtracts
\* penalties.friday_afternoon ("Friday (end of week)"), Tuesday to Thursday change
\* neither the score nor the reasons.
C23_DayOfWeek ==
    pc = "done" =>
        \A i \in 1..Len(scored_slots) :
            LET s == scored_slots[i]
                expected == DayReasonOf(Weekday(Origin + s.start))
                given == SelectSeq(s.reasons, LAMBDA r : r \in DayReasons)
                others == SelectSeq(s.reasons, LAMBDA r : r \notin DayReasons)
                delta == CASE expected = "Weekend" -> -settings.penalties["weekend"]
                           [] expected = "Monday (fresh start)" ->
                                 settings.bonuses["monday_morning"]
                           [] expected = "Friday (end of week)" ->
                                 -settings.penalties["friday_afternoon"]
                           [] OTHER -> 0
            IN  /\ Len(given) <= 1
                /\ given = IF expected = "" THEN <<>> ELSE <<expected>>
                /\ s.score = Max(0, 100 + SumDeltas(others) + delta)

\* a slot from Sunday 23:00 to Monday 00:30 is a weekend slot, not a Monday slot
C23_Witness ==
    /\ pc = "done"
    /\ window_start_dt = None
    /\ Len(scored_slots) = 1
    /\ scored_slots[1].start = 6 * 1440 + 1380
    /\ scored_slots[1].end = 7 * 1440 + 30
    /\ HasReason(scored_slots[1], "Weekend")
    /\ ~HasReason(scored_slots[1], "Monday (fresh start)")

LocationReasons == {"Good time for in-person", "Too early for in-person", "Virtual (flexible)"}

\* the reasons without those of the location check and without the placeholder
WithoutLocation(reasons) ==
    SelectSeq(reasons, LAMBDA r : r \notin LocationReasons \union {"Perfect slot"})

\* C24: the location check. "virtual" always adds bonuses.virtual_meeting with
\* "Virtual (flexible)"; "in-person" adds bonuses.in_person_midday with "Good time
\* for in-person" exactly when the start hour is in [10, 15) and subtracts 10 with
\* "Too early for in-person" exactly when the start hour is below 9, never both;
\* "hybrid" changes neither the score nor the reasons: the slot scores as it would
\* with the location check removed.
C24_LocationType ==
    pc = "done" =>
        \A i \in 1..Len(scored_slots) :
            LET s == scored_slots[i]
                hour == DayMinute(Origin + s.start) \div 60
                good == location_type = "in-person" /\ 10 <= hour /\ hour < 15
                early == location_type = "in-person" /\ hour < 9
                virtual == location_type = "virtual"
                delta == (IF good THEN settings.bonuses["in_person_midday"] ELSE 0)
                         + (IF early THEN -10 ELSE 0)
                         + (IF virtual THEN settings.bonuses["virtual_meeting"] ELSE 0)
                elsewhere == score_slot(candidates[i], settings, "virtual", people,
                                        window_start_dt)
            IN  /\ HasReason(s, "Virtual (flexible)") <=> virtual
                /\ HasReason(s, "Good time for in-person") <=> good
                /\ HasReason(s, "Too early for in-person") <=> early
                /\ ~(HasReason(s, "Good time for in-person")
                        /\ HasReason(s, "Too early for in-person"))
                /\ s.score = Max(0, 100 + SumDeltas(WithoutLocation(s.reasons)) + delta)
                /\ location_type = "hybrid" =>
                      /\ WithoutLocation(s.reasons) = WithoutLocation(elsewhere.reasons)
                      /\ s.score = Max(0, 100 + SumDeltas(WithoutLocation(s.reasons)))

\* an in-person slot at 09:15: hour 9, neither "too early" nor "good time"
C24_Witness ==
    /\ pc = "done"
    /\ location_type = "in-person"
    /\ window_start_dt = None
    /\ Len(scored_slots) = 1
    /\ DayMinute(scored_slots[1].start) = 555
    /\ ~HasReason(scored_slots[1], "Good time for in-person")
    /\ ~HasReason(scored_slots[1], "Too early for in-person")

\* C28: the buffer reasons imply the early/late reasons. Whenever "No morning
\* buffer" is among the reasons so is "Early morning", whenever "Runs to end of
\* day" is so is "Late evening"; a slot that starts exactly at work_hours_start, or
\* ends exactly at work_hours_end, carries both reasons of its pair and both
\* penalties.
C28_BufferImpliesEarlyLate ==
    pc = "done" =>
        \A i \in 1..Len(scored_slots) :
            LET s == scored_slots[i]
                pairs == {"Early morning", "No morning buffer",
                          "Late evening", "Runs to end of day"}
                at_start == DayMinute(Origin + s.start) = settings.work_hours_start
                at_end == DayMinute(Origin + s.end) = settings.work_hours_end
                others == SelectSeq(s.reasons, LAMBDA r : r \notin pairs)
                early == HasReason(s, "Early morning")
                late == HasReason(s, "Late evening")
            IN  /\ HasReason(s, "No morning buffer") => early
                /\ HasReason(s, "Runs to end of day") => late
                /\ at_start => HasReason(s, "No morning buffer") /\ early
                /\ at_end => HasReason(s, "Runs to end of day") /\ late
                /\ s.score =
                      Max(0, 100 + SumDeltas(others)
                             - (IF early THEN settings.penalties["early_morning"] ELSE 0)
                             - (IF at_start THEN settings.penalties["no_morning_buffer"] ELSE 0)
                             - (IF late THEN settings.penalties["late_evening"] ELSE 0)
                             - (IF at_end THEN settings.penalties["no_evening_buffer"] ELSE 0))

\* 09:00-10:00 with work hours from 09:00: early morning and no morning buffer, 15 + 5
C28_Witness ==
    /\ pc = "done"
    /\ settings = DefaultSettings
    /\ location_type = "hybrid"
    /\ NumZones = 1
    /\ candidates = <<<<1440 + 540, 1440 + 600>>>>
    /\ window_start_dt = None
    /\ Len(scored_slots) = 1
    /\ scored_slots[1].reasons = <<"Early morning", "No morning buffer">>
    /\ scored_slots[1].score = 80
(***************************************************************************)
(* find_optimal_slots: the whole pipeline.                                 *)
(***************************************************************************)
Init ==
    /\ pc = "start"
    /\ \E w \in PipeWindowStarts, len \in PipeWindowLengths,
          events \in SeqsUpTo(IntervalsOver(PipeOffsets), PipeMaxEvents) :
          /\ window_start = w[1]
          /\ window_start_dt = w[2]
          /\ window_end = w[1] + len
          /\ people = PipePeople(Shifted(events, w[1]))
    /\ duration \in PipeDurations
    /\ settings \in {DefaultSettings, StrictSettings}
    /\ location_type \in {"virtual", "in-person"}
    /\ top_k \in PipeTopK
    /\ Idle({"window_start", "window_start_dt", "window_end", "people", "duration",
             "settings", "location_type", "top_k"})

FindOptimalSlots ==
    /\ pc = "start"
    /\ pc' = "done"
    /\ LET r == find_optimal_slots(people, window_start, window_end, duration,
                                   location_type, settings, top_k, window_start_dt)
       IN  /\ busy_intervals' = r.busy
           /\ free_intervals' = r.free
           /\ candidates' = r.candidates
           /\ scored_slots' = r.scored
           /\ result' = r.result
           /\ raised' = r.raised
    /\ UNCHANGED <<intervals, people, window_start, window_end, duration, location_type,
                   settings, top_k, window_start_dt, createVars, twinVars,
                   payloadVars, notifyVars, loopVars>>

Next == FindOptimalSlots

Spec == Init /\ [][Next]_vars

AllEvents == UNION {Range(people[i].events) : i \in 1..Len(people)}

Intersects(a, b) == Max(a[1], b[1]) < Min(a[2], b[2])

\* C1: every returned slot lies in the window, is not empty, and meets no event of
\* any attendee.
C1_SlotsFree ==
    pc = "done" =>
        \A i \in 1..Len(result) :
            /\ window_start <= result[i].start
            /\ result[i].start < result[i].end
            /\ result[i].end <= window_end
            /\ \A ev \in AllEvents : ~Intersects(<<result[i].start, result[i].end>>, ev)

\* both people are busy, one at each end of the window, and a slot between is returned
C1_Witness ==
    /\ pc = "done"
    /\ window_start = 570
    /\ window_end = 660
    /\ people[1].events = <<<<630, 660>>>>
    /\ people[2].events = <<<<540, 600>>>>
    /\ duration = 30
    /\ Len(result) = 1
    /\ result[1].start = 600
    /\ result[1].end = 630

\* where a scored slot stands in the candidate list
\* the minutes of the window in which nobody has an event
FreeMinutes ==
    {t \in window_start..(window_end - 1) : \A ev \in AllEvents : ~(ev[1] <= t /\ t < ev[2])}

\* a meeting of the asked duration could start at s: on the grid, inside the window,
\* every minute of it free
SlotFitsAt(s) ==
    /\ s % settings.interval_minutes = 0
    /\ window_start <= s
    /\ s + duration <= window_end
    /\ \A t \in s..(s + duration - 1) : t \in FreeMinutes

\* C12: when the window is shorter than the duration, or busy time fills the whole
\* window, or no slot of the duration fits a free gap, find_optimal_slots returns the
\* empty list and raises nothing.
C12_EmptyNoError ==
    ( /\ pc = "done"
      /\ \/ window_end - window_start < duration
         \/ FreeMinutes = {}
         \/ \A s \in window_start..window_end : ~SlotFitsAt(s) )
    => result = <<>> /\ raised = ""

\* a window as long as the duration asked for, filled by one attendee's events
C12_Witness ==
    /\ pc = "done"
    /\ duration <= window_end - window_start
    /\ top_k > 0
    /\ AllEvents # {}
    /\ FreeMinutes = {}
    /\ busy_intervals # <<>>
    /\ free_intervals = <<>>
    /\ result = <<>>
    /\ raised = ""

CandidateIndex(s) == CHOOSE n \in 1..Len(candidates) : candidates[n] = <<s.start, s.end>>

\* C7: the returned list is ordered by score, descending, and two returned slots of
\* equal score stand in candidate-generation order.
C7_StableDescending ==
    pc = "done" =>
        \A i \in 1..Len(result) : \A j \in 1..Len(result) :
            i < j =>
                /\ result[i].score >= result[j].score
                /\ result[i].score = result[j].score =>
                       CandidateIndex(result[i]) < CandidateIndex(result[j])

\* the sort has moved a later candidate to the front and has kept a tie in order
C7_Witness ==
    /\ pc = "done"
    /\ Len(result) >= 3
    /\ CandidateIndex(result[1]) > 1
    /\ \E i \in 1..(Len(result) - 1) :
          /\ result[i].score = result[i + 1].score
          /\ CandidateIndex(result[i]) < CandidateIndex(result[i + 1])
    /\ \E i \in 1..(Len(result) - 1) : result[i].score > result[i + 1].score

NotReturned == {s \in Range(scored_slots) : s \notin Range(result)}

Dominates ==
    /\ Range(result) \subseteq Range(scored_slots)
    /\ \A r \in Range(result) : \A s \in NotReturned : r.score >= s.score

\* C8 as claimed: for every integer top_k the list holds min(top_k, number of
\* candidates) slots (none when that is negative), never more than top_k, and each
\* returned slot scores at least as much as every candidate that was not returned.
C8_AtMostTopK ==
    pc = "done" =>
        /\ Len(result) <= Max(0, top_k)
        /\ Len(result) = Max(0, Min(top_k, Len(candidates)))
        /\ Dominates

\* C8 as amended: for top_k >= 0 the list holds min(top_k, number of candidates)
\* slots; for top_k < 0 it holds all but the last -top_k of the ranking, max(0, number
\* of candidates + top_k) slots; in both cases each returned slot scores at least as
\* much as every candidate that was not returned.
C8_TopK ==
    pc = "done" =>
        /\ top_k >= 0 => Len(result) = Min(top_k, Len(candidates))
        /\ top_k < 0 => Len(result) = Max(0, Len(candidates) + top_k)
        /\ Len(candidates) > 0 => Len(scored_slots) = Len(candidates)
        /\ Dominates

\* two of more candidates are returned, and one left out scores less
C8_Witness ==
    /\ pc = "done"
    /\ top_k = 2
    /\ Len(candidates) > 2
    /\ Len(result) = 2
    /\ \E s \in NotReturned : s.score < result[2].score

(***************************************************************************)
(* find_optimal_slots with an OrgSettings that lacks a penalty or a bonus. *)
(* load_org_settings only requires the "penalties" and "bonuses"           *)
(* dictionaries themselves, not their keys.                                *)
(***************************************************************************)
\* the keys score_slot reads
PenaltyKeys ==
    {"outside_work_hours", "overlaps_lunch", "early_morning", "late_evening", "weekend",
     "friday_afternoon", "no_morning_buffer", "no_evening_buffer", "per_additional_timezone"}

BonusKeys == {"optimal_time_slot", "monday_morning", "in_person_midday", "virtual_meeting"}

\* the dictionary d without key k
WithoutKey(d, k) == [x \in (DOMAIN d) \ {k} |-> d[x]]

IncompleteSettings ==
    {[DefaultSettings EXCEPT !.penalties = WithoutKey(@, k)] : k \in PenaltyKeys}
    \cup {[DefaultSettings EXCEPT !.bonuses = WithoutKey(@, k)] : k \in BonusKeys}

\* windows of an hour and more, a meeting of half an hour, and at most one event of
\* half an hour: there is always a candidate to score
InitConfig ==
    /\ pc = "start"
    /\ \E w \in PipeWindowStarts, len \in PipeWindowLengths \ {30},
          events \in SeqsUpTo({iv \in IntervalsOver(PipeOffsets) : iv[2] - iv[1] = 30}, 1) :
          /\ window_start = w[1]
          /\ window_start_dt = w[2]
          /\ window_end = w[1] + len
          /\ people = PipePeople(Shifted(events, w[1]))
    /\ duration = 30
    /\ settings \in IncompleteSettings
    /\ location_type \in {"virtual", "in-person"}
    /\ Idle({"window_start", "window_start_dt", "window_end", "people", "duration",
             "settings", "location_type"})

SpecConfig == InitConfig /\ [][FindOptimalSlots]_vars

RequiredKeyMissing ==
    \/ \E k \in PenaltyKeys : k \notin DOMAIN settings.penalties
    \/ \E k \in BonusKeys : k \notin DOMAIN settings.bonuses

\* C14: when a required penalties / bonuses key is missing, the call ends with an
\* error and no candidate has been scored, whatever the candidates are.
C14_FailFast ==
    (pc = "done" /\ RequiredKeyMissing) => (raised # "" /\ scored_slots = <<>>)

(***************************************************************************)
(* create_meeting_with_dates applied to Google Calendar events.            *)
(***************************************************************************)
\* Monday 09:00:00
CreateWindowStarts == {9 * 3600}

CreateOffsets == {0 - 1800, 0, 30, 1800, 3600, 5400}

\* events with two dateTime entries, start before end, around the instant ws
DateTimeEvents(ws, offsets) ==
    {GoogleEvent(Timestamp("dateTime", ws + iv[1]), Timestamp("dateTime", ws + iv[2])) :
        iv \in IntervalsOver(offsets)}

\* the all-day event of the Monday
AllDayEvent == GoogleEvent(Timestamp("date", 0), Timestamp("date", 1))

\* events whose start or end cannot be read
MalformedEvents(ws) ==
    {GoogleEvent(Timestamp("unparsable", 0), Timestamp("dateTime", ws + 1800)),
     GoogleEvent(Timestamp("dateTime", ws), Timestamp("missing", 0)),
     GoogleEvent(Timestamp("null", 0), Timestamp("dateTime", ws + 1800))}

CreateEvents(ws) == DateTimeEvents(ws, CreateOffsets) \cup {AllDayEvent} \cup MalformedEvents(ws)

PersonEvents(tz, events) == [timezone |-> tz, events |-> events]

InitCreate ==
    /\ pc = "start"
    /\ start_dt \in CreateWindowStarts
    /\ end_dt = start_dt + 3600
    /\ \E first \in SeqsUpTo(CreateEvents(start_dt), CreateMaxEvents),
          second \in SeqsUpTo(CreateEvents(start_dt), 1) :
          people_events = <<PersonEvents(Timezones[1], first),
                            PersonEvents(Timezones[2], second)>>
    /\ duration = 30
    /\ Idle({"start_dt", "end_dt", "people_events", "duration"})

CreateMeetingWithDates ==
    /\ pc = "start"
    /\ pc' = "done"
    /\ \E r \in {create_meeting_with_dates(start_dt, end_dt, people_events, duration,
                                            location_type, settings, top_k)} :
           /\ raised' = r.raised
           /\ people' = r.people
           /\ window_end' = r.window_min
           /\ window_start_dt' = r.window_start_dt
           /\ busy_intervals' = r.busy
           /\ free_intervals' = r.free
           /\ candidates' = r.candidates
           /\ scored_slots' = r.scored
           /\ result' = r.result
    /\ UNCHANGED <<intervals, window_start, duration, location_type, settings, top_k,
                   createVars, twinVars, payloadVars, notifyVars, loopVars>>

SpecCreate == InitCreate /\ [][CreateMeetingWithDates]_vars

WellFormedTimestamp(ts) == ts.kind \in {"dateTime", "date"}

\* people_events without the events whose start or end cannot be read
WithoutMalformed(pe) ==
    [i \in 1..Len(pe) |->
        [pe[i] EXCEPT !.events =
            SelectSeq(@, LAMBDA ev : WellFormedTimestamp(ev.start)
                                     /\ WellFormedTimestamp(ev.end))]]

\* C15: an event whose timestamp cannot be read is dropped and nothing is raised; the
\* people built and the merged busy list are those of the same input without the
\* malformed events.
C15_MalformedDropped ==
    pc = "done" =>
        LET clean == build_people_from_google_events(WithoutMalformed(people_events),
                                                     start_dt, end_dt)
        IN  /\ raised = ""
            /\ people = clean.people
            /\ busy_intervals = get_all_busy_intervals(clean.people, 0,
                                                       MinutesFrom(end_dt, start_dt))

(***************************************************************************)
(* create_meeting_with_dates applied to windows and durations of any sign. *)
(***************************************************************************)
ValidateWindowLengths == {0 - 1800, 0, 1800, 3600}

ValidateDurations == {0 - 30, 0, 30, 60}

InitValidate ==
    /\ pc = "start"
    /\ start_dt \in CreateWindowStarts
    /\ \E len \in ValidateWindowLengths : end_dt = start_dt + len
    /\ \E first \in SeqsUpTo(DateTimeEvents(start_dt, {0, 1800, 3600}), 1) :
          people_events = <<PersonEvents(Timezones[1], first),
                            PersonEvents(Timezones[2], <<>>)>>
    /\ duration \in ValidateDurations
    /\ location_type \in {"virtual", "in-person"}
    /\ Idle({"start_dt", "end_dt", "people_events", "duration", "location_type"})

SpecValidate == InitValidate /\ [][CreateMeetingWithDates]_vars

\* C13: a request whose window ends at or before its start, whose duration is longer
\* than the window, or whose duration is not positive ends with a validation error,
\* and no busy list, free list or candidate was computed and no slot is returned.
C13_Rejected ==
    ( /\ pc = "done"
      /\ \/ end_dt <= start_dt
         \/ duration > MinutesFrom(end_dt, start_dt)
         \/ duration <= 0 )
    => /\ raised = "ValueError"
       /\ busy_intervals = <<>>
       /\ free_intervals = <<>>
       /\ candidates = <<>>
       /\ result = <<>>

(***************************************************************************)
(* The two clipping steps, each applied to one event: the events of        *)
(* Google Calendar are clipped by google_event_to_interval when the people *)
(* are built, the events in minutes by clip_interval when the busy list is *)
(* gathered.                                                               *)
(***************************************************************************)
ClipOffsets == {0 - 1800, 0 - 30, 0, 30, 60, 90, 1800, 1830, 3600, 3630, 5400}

ClipWindowLengths == {1800, 3600, 3630}

\* dateTime events around ws, start before end or not
AnyDateTimeEvents(ws) ==
    {GoogleEvent(Timestamp("dateTime", ws + a), Timestamp("dateTime", ws + b)) :
        a \in ClipOffsets, b \in ClipOffsets}

ClipMinutes == {15 * i : i \in -1..ClipMaxTick}

InitClipEvent ==
    /\ pc = "start"
    /\ start_dt \in CreateWindowStarts
    /\ \E len \in ClipWindowLengths : end_dt = start_dt + len
    /\ \E ev \in AnyDateTimeEvents(start_dt) \cup {AllDayEvent} :
          people_events = <<PersonEvents(Timezones[1], <<ev>>)>>
    /\ Idle({"start_dt", "end_dt", "people_events"})

InitClipInterval ==
    /\ pc = "start"
    /\ window_start \in ClipMinutes
    /\ window_end \in ClipMinutes
    /\ \E s \in ClipMinutes, e \in ClipMinutes : people = <<Person(Timezones[1], <<<<s, e>>>>)>>
    /\ Idle({"window_start", "window_end", "people"})

InitClip == InitClipEvent \/ InitClipInterval

BuildPeopleFromGoogleEvents ==
    /\ pc = "start"
    /\ people_events # <<>>
    /\ pc' = "built"
    /\ LET r == build_people_from_google_events(people_events, start_dt, end_dt)
       IN  /\ people' = r.people
           /\ raised' = r.raised
    /\ UNCHANGED <<intervals, window_start, window_end, duration, location_type, settings,
                   top_k, window_start_dt, busy_intervals, free_intervals, candidates,
                   scored_slots, result, createVars, twinVars,
                   payloadVars, notifyVars, loopVars>>

GetAllBusyIntervals ==
    /\ pc = "start"
    /\ people # <<>>
    /\ pc' = "clipped"
    /\ busy_intervals' = get_all_busy_intervals(people, window_start, window_end)
    /\ UNCHANGED <<intervals, people, window_start, window_end, duration, location_type,
                   settings, top_k, window_start_dt, free_intervals, candidates,
                   scored_slots, result, raised, createVars, twinVars,
                   payloadVars, notifyVars, loopVars>>

NextClip == BuildPeopleFromGoogleEvents \/ GetAllBusyIntervals

SpecClip == InitClip /\ [][NextClip]_vars

\* the instant a well-formed entry stands for
Instant(ts) == IF ts.kind = "date" THEN ts.t * 86400 ELSE ts.t

\* the whole minute in which second x lies
MinuteOf(x) == CHOOSE k \in -60..120 : 60 * k <= x /\ x < 60 * k + 60

\* C16: a clipped event is either dropped, when it lies outside the window or is left
\* without length, or an interval (s, e) inside the window, window start <= s < e <=
\* window end, that is the event cut to the window (in whole minutes from the window
\* start for a Google Calendar event).
C16_Clipped ==
    /\ pc = "built" =>
          \A i \in 1..Len(people) :
              LET ev == people_events[i].events[1]
                  s == Instant(ev.start)
                  e == Instant(ev.end)
                  lo == Max(s, start_dt) - start_dt
                  hi == Min(e, end_dt) - start_dt
                  out == people[i].events
              IN  /\ raised = ""
                  /\ out = <<>> <=>
                        (e <= start_dt \/ s >= end_dt \/ MinuteOf(hi) <= MinuteOf(lo))
                  /\ out # <<>> =>
                        /\ Len(out) = 1
                        /\ 0 <= out[1][1]
                        /\ out[1][1] < out[1][2]
                        /\ out[1][2] <= MinuteOf(end_dt - start_dt)
                        /\ out[1] = <<MinuteOf(lo), MinuteOf(hi)>>
                        /\ (lo % 60 = 0 /\ hi % 60 = 0) =>
                              (60 * out[1][1] = lo /\ 60 * out[1][2] = hi)
    /\ pc = "clipped" =>
          LET ev == people[1].events[1]
          IN  /\ Len(busy_intervals) <= 1
              /\ \A j \in 1..Len(busy_intervals) :
                    /\ window_start <= busy_intervals[j][1]
                    /\ busy_intervals[j][1] < busy_intervals[j][2]
                    /\ busy_intervals[j][2] <= window_end
              /\ Cover(busy_intervals)
                    = Cover(<<ev>>) \cap {t \in window_start..(window_end - 1) : TRUE}

\* an event that starts half an hour before the window and ends half an hour into it
C16_Witness ==
    /\ pc = "built"
    /\ Instant(people_events[1].events[1].start) = start_dt - 1800
    /\ Instant(people_events[1].events[1].end) = start_dt + 1800
    /\ people[1].events = <<<<0, 30>>>>

(***************************************************************************)
(* generate_candidate_slots, one loop iteration at a time, for durations   *)
(* and grids of any sign.                                                  *)
(***************************************************************************)
LoopPoints == {15 * i : i \in 0..LoopMaxTick}

LoopDurations == {0 - 15, 0, 15, 30}

LoopGrids == {0 - 15, 0, 15, 30}

\* the longest list a call with a positive grid builds from LoopPoints and
\* LoopDurations; a run is followed until its list is longer than that
LoopMaxSlots == 2 * (LoopMaxTick + 3)

InitLoop ==
    /\ pc = "start"
    /\ free_intervals \in MergedLists(LoopPoints, 2)
    /\ duration \in LoopDurations
    /\ settings \in {[DefaultSettings EXCEPT !.interval_minutes = g] : g \in LoopGrids}
    /\ Idle({"free_intervals", "duration", "settings"})

\* candidates = []
LoopEnter ==
    /\ pc = "start"
    /\ pc' = "for"
    /\ candidates' = <<>>
    /\ free_index' = 1
    /\ UNCHANGED <<intervals, people, window_start, window_end, duration, location_type,
                   settings, top_k, window_start_dt, busy_intervals, free_intervals,
                   scored_slots, result, raised, createVars, twinVars,
                   payloadVars, notifyVars, loop_current>>

\* for free_start, free_end in free_intervals: first_start = ...; current = first_start
\* (the division raises ZeroDivisionError when interval_minutes is 0)
ForStep ==
    /\ pc = "for"
    /\ IF free_index > Len(free_intervals)
       THEN pc' = "done" /\ UNCHANGED <<raised, loop_current>>
       ELSE IF settings.interval_minutes = 0
       THEN pc' = "done" /\ raised' = "ZeroDivisionError" /\ UNCHANGED loop_current
       ELSE /\ pc' = "while"
            /\ loop_current' = FirstStart(free_intervals[free_index][1],
                                          settings.interval_minutes)
            /\ UNCHANGED raised
    /\ UNCHANGED <<intervals, people, window_start, window_end, duration, location_type,
                   settings, top_k, window_start_dt, busy_intervals, free_intervals,
                   candidates, scored_slots, result, createVars, twinVars,
                   payloadVars, notifyVars, free_index>>

\* while current + duration <= free_end: candidates.append(...); current += interval_minutes
WhileStep ==
    /\ pc = "while"
    /\ Len(candidates) <= LoopMaxSlots
    /\ IF loop_current + duration <= free_intervals[free_index][2]
       THEN /\ candidates' = Append(candidates, <<loop_current, loop_current + duration>>)
            /\ loop_current' = loop_current + settings.interval_minutes
            /\ UNCHANGED <<pc, free_index>>
       ELSE /\ pc' = "for"
            /\ free_index' = free_index + 1
            /\ UNCHANGED <<candidates, loop_current>>
    /\ UNCHANGED <<intervals, people, window_start, window_end, duration, location_type,
                   settings, top_k, window_start_dt, busy_intervals, free_intervals,
                   scored_slots, result, raised, createVars, twinVars,
                   payloadVars, notifyVars>>

NextLoop == LoopEnter \/ ForStep \/ WhileStep

\* a running call takes its next step
SpecLoop == InitLoop /\ [][NextLoop]_vars /\ WF_vars(NextLoop)

\* how far the while loop is from its exit: it leaves once this is negative
LoopDistance == free_intervals[free_index][2] - (loop_current + duration)

\* C18: every call terminates: each iteration of the while loop over a free gap
\* brings the loop closer to its exit condition, whatever the duration and the grid.
C18_LoopReachesExit ==
    [][(pc = "while" /\ pc' = "while") => LoopDistance' < LoopDistance]_vars

(***************************************************************************)
(* The stages of find_optimal_slots and find_optimal_slots itself, each    *)
(* applied once: what a call leaves of its arguments.                      *)
(***************************************************************************)
\* a window of an hour or more, a meeting of half an hour, at most one event
InitFramePipe ==
    /\ pc = "start"
    /\ \E w \in PipeWindowStarts, len \in PipeWindowLengths \ {30},
          events \in SeqsUpTo(IntervalsOver(PipeOffsets), 1) :
          /\ window_start = w[1]
          /\ window_start_dt = w[2]
          /\ window_end = w[1] + len
          /\ people = PipePeople(Shifted(events, w[1]))
    /\ duration = 30
    /\ settings \in {DefaultSettings, StrictSettings}
    /\ Idle({"window_start", "window_start_dt", "window_end", "people", "duration",
             "settings"})

InitFrame == InitMerge \/ InitFree \/ InitCand \/ InitScore \/ InitFramePipe

NextFrame ==
    \/ GetAllBusyIntervals
    \/ MergeIntervals
    \/ BusyToFree
    \/ GenerateCandidateSlots
    \/ ScoreCandidates
    \/ FindOptimalSlots

SpecFrame == InitFrame /\ [][NextFrame]_vars

SortedLists(points, n) == {s \in SeqsUpTo(IntervalsOver(points), n) : SortedByStart(s)}

InitFreeSorted ==
    /\ pc = "start"
    /\ busy_intervals \in SortedLists(FreePoints, FreeMaxLen)
    /\ \E w \in IntervalsOver(FreePoints) : window_start = w[1] /\ window_end = w[2]
    /\ Idle({"busy_intervals", "window_start", "window_end"})

SpecFreeSorted == InitFreeSorted /\ [][BusyToFree]_vars

\* the scan that advances its cursor to max(cursor, busy.end)
RECURSIVE ReferenceLoop(_, _, _, _, _)
ReferenceLoop(busy, i, cursor, free, w_end) ==
    IF i > Len(busy) THEN [cursor |-> cursor, free |-> free]
    ELSE LET free2 == IF busy[i][1] > cursor THEN Append(free, <<cursor, busy[i][1]>>)
                      ELSE free
             cursor2 == Max(cursor, busy[i][2])
         IN  IF cursor2 >= w_end THEN [cursor |-> cursor2, free |-> free2]
             ELSE ReferenceLoop(busy, i + 1, cursor2, free2, w_end)

ReferenceFree(busy, w_start, w_end) ==
    LET after == ReferenceLoop(busy, 1, w_start, <<>>, w_end)
    IN  IF after.cursor < w_end THEN Append(after.free, <<after.cursor, w_end>>)
        ELSE after.free

\* C20: for every busy list sorted by start, busy_to_free returns what the scan with
\* the cursor advanced to max(cursor, busy.end) returns, and every free gap starts at
\* or after window_start.
C20_CursorMax ==
    pc = "done" =>
        /\ free_intervals = ReferenceFree(busy_intervals, window_start, window_end)
        /\ \A i \in 1..Len(free_intervals) : window_start <= free_intervals[i][1]


(***************************************************************************)
(* score_slot applied to slots of any length: a meeting inside one day,    *)
(* one that crosses midnight, one that lasts a day or longer.              *)
(***************************************************************************)
LongDayMinutes == {600, 720, 750, 1380}

LongDurations == {30, 840, 1410, 1440, 1500}

LongSlots ==
    {<<d * 1440 + m, d * 1440 + m + len>> :
        d \in 0..LongMaxDay, m \in LongDayMinutes, len \in LongDurations}

InitScoreLong ==
    /\ pc = "start"
    /\ candidates \in {<<s>> : s \in LongSlots}
    /\ settings \in {DefaultSettings, StrictSettings}
    /\ location_type \in LocationTypes
    /\ people \in {PeopleInZones(ScoreMaxZones, z) : z \in 1..ScoreMaxZones}
    /\ window_start_dt \in StartDatetimes
    /\ Idle({"candidates", "settings", "location_type", "people", "window_start_dt"})

SpecScoreLong == InitScoreLong /\ [][ScoreCandidates]_vars

\* the half-open ranges [a1, a2) and [b1, b2) have a minute in common
RangesIntersect(a1, a2, b1, b2) == a1 < b2 /\ b1 < a2 /\ a1 < a2 /\ b1 < b2

\* the days a slot touches, counted from the Monday of the origin
SlotDays(s) == DaysSinceMonday(Origin + s.start)..DaysSinceMonday(Origin + s.end)

\* the slot's time range meets the lunch window of some day
MeetsLunch(s) ==
    \E d \in SlotDays(s) :
        RangesIntersect(Origin + s.start, Origin + s.end,
                        d * 1440 + settings.lunch_start, d * 1440 + settings.lunch_end)

\* C22: "Overlaps lunch" is among the reasons exactly when the slot's time range
\* intersects the lunch window [lunch_start, lunch_end) of some day, for every slot,
\* also one that crosses midnight or lasts a day or longer.
C22_LunchOverlap ==
    pc = "done" =>
        \A i \in 1..Len(scored_slots) :
            HasReason(scored_slots[i], "Overlaps lunch") <=> MeetsLunch(scored_slots[i])


\* the slot lies inside the work hours of day d
InsideWorkHoursOf(s, d) ==
    /\ d * 1440 + settings.work_hours_start <= Origin + s.start
    /\ Origin + s.end <= d * 1440 + settings.work_hours_end

\* C29: whenever "Outside work hours" is absent from the reasons, every minute of
\* the slot lies inside the work-hours window [work_hours_start, work_hours_end] of
\* one single day, whatever the duration, 1440 minutes or more included.
C29_InsideOneWorkday ==
    pc = "done" =>
        \A i \in 1..Len(scored_slots) :
            ~HasReason(scored_slots[i], "Outside work hours") =>
                \E d \in SlotDays(scored_slots[i]) : InsideWorkHoursOf(scored_slots[i], d)


(***************************************************************************)
(* The two copies of find_optimal_slots on the same arguments: the one of  *)
(* src/scheduler.py with window_start_dt=None, then the server's.          *)
(***************************************************************************)
\* Monday 09:30, Friday 16:00, Sunday 23:00
TwinWindowStarts == {570, 4 * 1440 + 960, 6 * 1440 + 1380}

TwinWindowLengths == {60, 90}

TwinOffsets == {0, 30, 60}

\* complete settings, and settings that lack a key some slot's check reads
TwinSettings ==
    {DefaultSettings, StrictSettings,
     [DefaultSettings EXCEPT !.penalties = WithoutKey(@, "weekend")],
     [DefaultSettings EXCEPT !.bonuses = WithoutKey(@, "virtual_meeting")]}

InitTwin ==
    /\ pc = "start"
    /\ \E w \in TwinWindowStarts, len \in TwinWindowLengths,
          events \in SeqsUpTo(IntervalsOver(TwinOffsets), PipeMaxEvents) :
          /\ window_start = w
          /\ window_end = w + len
          /\ people = PipePeople(Shifted(events, w))
    /\ window_start_dt = None
    /\ duration \in PipeDurations
    /\ settings \in TwinSettings
    /\ location_type \in LocationTypes
    /\ top_k \in {-1, 2}
    /\ Idle({"window_start", "window_end", "people", "duration", "settings",
             "location_type", "top_k"})

ServerFindOptimalSlots ==
    /\ pc = "done"
    /\ pc' = "compared"
    /\ \E r \in {server_find_optimal_slots(people, window_start, window_end, duration,
                                           location_type, settings, top_k)} :
          /\ server_result' = r.result
          /\ server_raised' = r.raised
    /\ UNCHANGED <<intervals, people, window_start, window_end, duration, location_type,
                   settings, top_k, window_start_dt, busy_intervals, free_intervals,
                   candidates, scored_slots, result, raised, createVars, payloadVars,
                   notifyVars, loopVars>>

NextTwin == FindOptimalSlots \/ ServerFindOptimalSlots

SpecTwin == InitTwin /\ [][NextTwin]_vars

\* C30: called with the same people, window, duration, location type, settings and
\* top_k, and window_start_dt=None, the two copies of find_optimal_slots return the
\* same list of ScoredSlot (same order, start, end, score and reasons), and one
\* raises exactly when the other does.
C30_CopiesAgree ==
    pc = "compared" => server_result = result /\ server_raised = raised

\* a Monday window from 09:30: both copies return the 10:00 slot, which is not early
C30_Witness ==
    /\ pc = "compared"
    /\ raised = ""
    /\ server_raised = ""
    /\ Len(server_result) >= 2
    /\ \E i \in 1..Len(server_result) :
          /\ server_result[i].start = 600
          /\ ~HasReason(server_result[i], "Early morning")
          /\ result[i] = server_result[i]


(***************************************************************************)
(* create_meeting_from_payload applied to a payload and a window.          *)
(***************************************************************************)
\* Thursday 1970-01-08 09:00 UTC; Sunday 1970-01-11 20:00 at UTC-5, which is Monday
\* 01:00 UTC; Sunday 1970-01-11 22:00:30 UTC; Monday 1970-01-05 00:00 UTC
PayloadWindowStarts ==
    {DateTime(7 * 86400 + 9 * 3600, 0), DateTime(11 * 86400 + 3600, -18000),
     DateTime(10 * 86400 + 22 * 3600 + 30, 0), DateTime(4 * 86400, 0)}

\* minutes
PayloadWindowLengths == {60, 180}

\* the events an entry can hold, for a window that starts at ws: ISO strings half an
\* hour into the window, integer minutes, a null start, a start that does not parse
PayloadEventChoices(ws) ==
    LET from == PayloadValue("str", DateTime(ws.sec + 1800, 0))
        to == PayloadValue("str", DateTime(ws.sec + 3600, 0))
    IN  {[start |-> from, end |-> to],
         [start |-> PayloadValue("int", 0), end |-> PayloadValue("int", 60)],
         [start |-> PayloadValue("none", 0), end |-> to],
         [start |-> PayloadValue("bad", 0), end |-> to]}

\* no entry at all, or two people, the first with the events and the second without
\* events and without a timezone
Payloads(ws) ==
    {<<>>} \union
    {<<[timezone |-> "America/New_York", events |-> evs],
       [timezone |-> "", events |-> <<>>]>> :
        evs \in SeqsUpTo(PayloadEventChoices(ws), PayloadMaxEvents)}

InitPayload ==
    /\ pc = "start"
    /\ \/ /\ payload_window = <<<<>>, <<>>>>
          /\ people_payload = <<>>
       \/ \E ws \in PayloadWindowStarts, len \in PayloadWindowLengths :
             /\ payload_window = <<<<ws>>, <<DateTime(ws.sec + len * 60, ws.offset)>>>>
             /\ people_payload \in Payloads(ws)
    /\ reference_start = <<>>
    /\ payload_return = <<>>
    /\ duration \in PipeDurations
    /\ settings \in {DefaultSettings, StrictSettings}
    /\ location_type \in LocationTypes
    /\ top_k \in {2, 5}
    /\ Idle({"payload", "duration", "settings", "location_type", "top_k"})

CreateMeetingFromPayload ==
    /\ pc = "start"
    /\ pc' = "done"
    /\ \E r \in {create_meeting_from_payload(people_payload, payload_window[1],
                                             payload_window[2], duration, location_type,
                                             settings, top_k)} :
          /\ reference_start' = r.reference
          /\ people' = r.people
          /\ window_start' = r.w_start_min
          /\ window_end' = r.w_end_min
          /\ candidates' = r.candidates
          /\ result' = r.scored
          /\ payload_return' = r.return
          /\ raised' = r.raised
    /\ UNCHANGED <<intervals, duration, location_type, settings, top_k, window_start_dt,
                   busy_intervals, free_intervals, scored_slots, createVars, twinVars,
                   people_payload, payload_window, notifyVars, loopVars>>

SpecPayload == InitPayload /\ [][CreateMeetingFromPayload]_vars

\* weekday (0 = Monday) and minute of the day, in UTC, of an instant given in seconds
\* since 1970-01-01T00:00:00Z; 1970-01-05 was a Monday
InstantWeekday(sec) == ((sec \div 86400) - 4) % 7

InstantDayMinute(sec) == (sec % 86400) \div 60

\* C25: in create_meeting_from_payload the reference origin is 00:00 (UTC) of the
\* Monday of the week that contains window_start, so for every candidate slot
\* (slot.start // 1440) mod 7 and slot.start mod 1440 are the weekday and the minute
\* of the day of the slot's start instant, origin + slot.start minutes, also when the
\* window runs past the end of that week.
C25_WeekdayMethodsAgree ==
    (pc = "done" /\ reference_start # <<>>) =>
        LET origin == reference_start[1]
            ws == payload_window[1][1]
        IN  /\ origin.offset = 0
            /\ InstantWeekday(origin.sec) = 0
            /\ InstantDayMinute(origin.sec) = 0 /\ origin.sec % 60 = 0
            /\ origin.sec <= ws.sec /\ ws.sec < origin.sec + 7 * 86400
            /\ \A i \in 1..Len(candidates) :
                  LET slot == candidates[i]
                      instant == origin.sec + 60 * slot[1]
                  IN  /\ (slot[1] \div 1440) % 7 = InstantWeekday(instant)
                      /\ slot[1] % 1440 = InstantDayMinute(instant)
            /\ payload_return # <<>> =>
                  /\ payload_return[1].sec = origin.sec + 60 * result[1].start
                  /\ InstantWeekday(payload_return[1].sec) = (result[1].start \div 1440) % 7

\* a window from Sunday 22:00:30: the slots after midnight lie in the next week,
\* (slot.start // 1440) is 7 and the weekday is Monday
C25_Witness ==
    /\ pc = "done"
    /\ reference_start = <<DateTime(4 * 86400, 0)>>
    /\ payload_return # <<>>
    /\ \E i \in 1..Len(candidates) :
          /\ candidates[i][1] \div 1440 = 7
          /\ InstantWeekday(reference_start[1].sec + 60 * candidates[i][1]) = 0
    /\ \E i \in 1..Len(candidates) : candidates[i][1] \div 1440 = 6


(***************************************************************************)
(* The notification handlers of src/server/app.py for one confirmed        *)
(* meeting: api_respond_to_notification with _sync_meeting_to_calendars,   *)
(* api_mark_notification_read and api_clear_responded_notifications.       *)
(* Every request has a database session of its own; a step is one         *)
(* statement sent to the database (or the call to Google Calendar), and    *)
(* the steps of different requests interleave.                             *)
(***************************************************************************)
Invitees == 1..NumInvitees

\* a row of notifications; response "" is NULL
Notification(exists, response, is_read) ==
    [exists |-> exists, response |-> response, is_read |-> is_read]

\* a request of a user: where it stands, the response it carries, the value of
\* meeting.calendar_synced its session has loaded, all_accepted as it computed it,
\* the number of requests the user has sent and the status of the last one
Request(at, response, loaded_synced, all_accepted, sent, status) ==
    [at |-> at, response |-> response, loaded_synced |-> loaded_synced,
     all_accepted |-> all_accepted, sent |-> sent, status |-> status]

\* the request is over with an HTTP status
Finished(req, status) == Request("idle", "", FALSE, FALSE, req.sent, status)

InitNotify ==
    /\ pc = "start"
    /\ notifications = [u \in Invitees |-> Notification(TRUE, "", FALSE)]
    /\ invites = [u \in Invitees |-> "pending"]
    /\ calendar_synced = FALSE
    /\ calendar_events = 0
    /\ requests = [u \in Invitees |-> Request("idle", "", FALSE, FALSE, 0, 0)]
    /\ sync_log = <<>>
    /\ Idle({"notifications"})

\* what the handlers of this section leave alone
NotifyFrame ==
    UNCHANGED <<pc, intervals, people, window_start, window_end, duration, location_type,
                settings, top_k, window_start_dt, busy_intervals, free_intervals,
                candidates, scored_slots, result, raised, createVars, twinVars,
                payloadVars, loopVars>>

\* a user may send a request: they have none in progress and, when requests are
\* served one after the other, nobody has
MaySend(u, serial) ==
    /\ requests[u].at = "idle"
    /\ requests[u].sent < MaxRequests
    /\ serial => \A v \in Invitees : requests[v].at = "idle"

\* api_respond_to_notification up to db.commit(): 404 without the notification, else
\* the response is written to the notification and to the invite
RespondCommit(u, response, serial) ==
    /\ MaySend(u, serial)
    /\ IF ~notifications[u].exists
       THEN /\ requests' = [requests EXCEPT ![u] =
                               Finished([@ EXCEPT !.sent = @ + 1], 404)]
            /\ UNCHANGED <<notifications, invites>>
       ELSE /\ notifications' = [notifications EXCEPT ![u] =
                                    Notification(TRUE, response, TRUE)]
            /\ invites' = [invites EXCEPT ![u] = response]
            /\ requests' = [requests EXCEPT ![u] =
                               Request("committed", response, FALSE, FALSE, @.sent + 1, 0)]
    /\ UNCHANGED <<calendar_synced, calendar_events, sync_log>>
    /\ NotifyFrame

\* db.refresh(notification), which fails when the row is gone; for "accepted",
\* meeting = notification.confirmed_meeting loads the meeting into the session
RespondLoadMeeting(u) ==
    /\ requests[u].at = "committed"
    /\ requests' = [requests EXCEPT ![u] =
          IF ~notifications[u].exists THEN Finished(@, 500)
          ELSE IF @.response # "accepted" THEN Finished(@, 200)
          ELSE [@ EXCEPT !.at = "loaded", !.loaded_synced = calendar_synced]]
    /\ UNCHANGED <<notifications, invites, calendar_synced, calendar_events, sync_log>>
    /\ NotifyFrame

\* all_notifications = db.query(Notification)...all();
\* all_accepted = all(r == "accepted" for r in responses.values())
RespondQuery(u) ==
    /\ requests[u].at = "loaded"
    /\ requests' = [requests EXCEPT ![u] =
          [@ EXCEPT !.at = "queried",
                    !.all_accepted = \A v \in Invitees :
                        notifications[v].exists => notifications[v].response = "accepted"]]
    /\ UNCHANGED <<notifications, invites, calendar_synced, calendar_events, sync_log>>
    /\ NotifyFrame

\* `if all_accepted and not meeting.calendar_synced:` is false: the response is sent
RespondReturn(u) ==
    /\ requests[u].at = "queried"
    /\ ~(requests[u].all_accepted /\ ~requests[u].loaded_synced)
    /\ requests' = [requests EXCEPT ![u] = Finished(@, 200)]
    /\ UNCHANGED <<notifications, invites, calendar_synced, calendar_events, sync_log>>
    /\ NotifyFrame

\* the outcomes of _sync_meeting_to_calendars past its guard: the event is inserted
\* and the flag committed, the organizer has no calendar service, or the call raises
SyncOutcomes == {"inserted", "no service", "failed"}

\* _sync_meeting_to_calendars(meeting, db), called with the meeting object of the
\* request's session
RespondSync(u, outcome) ==
    /\ requests[u].at = "queried"
    /\ requests[u].all_accepted /\ ~requests[u].loaded_synced
    /\ sync_log' = Append(sync_log, invites)
    /\ IF requests[u].loaded_synced \/ outcome # "inserted"
       THEN UNCHANGED <<calendar_events, calendar_synced>>
       ELSE /\ calendar_events' = calendar_events + 1
            /\ calendar_synced' = TRUE
    /\ requests' = [requests EXCEPT ![u] = Finished(@, 200)]
    /\ UNCHANGED <<notifications, invites>>
    /\ NotifyFrame

\* api_mark_notification_read
ApiMarkNotificationRead(u, serial) ==
    /\ MaySend(u, serial)
    /\ IF ~notifications[u].exists
       THEN /\ requests' = [requests EXCEPT ![u] =
                               Finished([@ EXCEPT !.sent = @ + 1], 404)]
            /\ UNCHANGED notifications
       ELSE /\ notifications' = [notifications EXCEPT ![u].is_read = TRUE]
            /\ requests' = [requests EXCEPT ![u] =
                               Finished([@ EXCEPT !.sent = @ + 1], 200)]
    /\ UNCHANGED <<invites, calendar_synced, calendar_events, sync_log>>
    /\ NotifyFrame

\* api_clear_responded_notifications: the user's notifications with a response are
\* deleted
ApiClearRespondedNotifications(u, serial) ==
    /\ MaySend(u, serial)
    /\ notifications' = [notifications EXCEPT ![u] =
          IF @.exists /\ @.response # "" THEN Notification(FALSE, "", FALSE) ELSE @]
    /\ requests' = [requests EXCEPT ![u] = Finished([@ EXCEPT !.sent = @ + 1], 200)]
    /\ UNCHANGED <<invites, calendar_synced, calendar_events, sync_log>>
    /\ NotifyFrame

NotifySteps(serial) ==
    \E u \in Invitees :
        \/ \E response \in {"accepted", "declined"} : RespondCommit(u, response, serial)
        \/ RespondLoadMeeting(u)
        \/ RespondQuery(u)
        \/ RespondReturn(u)
        \/ \E outcome \in SyncOutcomes : RespondSync(u, outcome)
        \/ ApiMarkNotificationRead(u, serial)
        \/ ApiClearRespondedNotifications(u, serial)

\* the requests of different users interleave
NextNotify == NotifySteps(FALSE)

SpecNotify == InitNotify /\ [][NextNotify]_vars

\* one request at a time, each served to its end before the next is sent
NextNotifySerial == NotifySteps(TRUE)

SpecNotifySerial == InitNotify /\ [][NextNotifySerial]_vars

====
